---- MODULE Spec2Model ----
(***************************************************************************)
(* A model of the ws-transcription server: the per-connection session      *)
(* state machine (message handler, p-queue jobs, stop handler), the pure   *)
(* helpers of transcription.ts and the merge policies of parse-gpt.ts.     *)
(*                                                                         *)
(* Representation.                                                         *)
(*   - A JavaScript string is a sequence of one-character strings.         *)
(*   - A Buffer is a run-length encoded byte sequence: a sequence of       *)
(*     <<byte, count>> runs with count > 0 and no two adjacent runs of the *)
(*     same byte, so that two buffers are equal iff their bytes are.       *)
(*   - A JSON object with string values is a function from its keys.       *)
(***************************************************************************)
EXTENDS Integers, Sequences, FiniteSets, TLC

(***************************************************************************)
(* Bounds of the model.                                                    *)
(***************************************************************************)
\* longest string drawn for the stitcher as base or as addition
MaxStrLen == 3
\* longest byte block drawn for the segment validator
MaxDataLen == 5

\* characters the stitcher's inputs are drawn from
StitchAlphabet == {"a", "b"}
\* byte values the validator's inputs are drawn from: the four magic bytes and zero
ValidatorBytes == {26, 69, 223, 163, 0}

(***************************************************************************)
(* JavaScript string helpers.                                              *)
(***************************************************************************)
Min(a, b) == IF a <= b THEN a ELSE b
Max(a, b) == IF a >= b THEN a ELSE b

\* s.slice(from) for 0 <= from (0-based)
SliceFrom(s, from) == SubSeq(s, from + 1, Len(s))
\* s.slice(0, to)
SliceTo(s, to) == SubSeq(s, 1, Min(to, Len(s)))
\* base.endsWith(suffix)
EndsWith(base, suffix) ==
    /\ Len(suffix) <= Len(base)
    /\ SubSeq(base, Len(base) - Len(suffix) + 1, Len(base)) = suffix
\* s.slice(-n) for n >= 0: slice(-0) is slice(0), the whole string
SliceLast(s, n) ==
    IF n = 0 THEN s
    ELSE SubSeq(s, Max(Len(s) - n, 0) + 1, Len(s))

IsSpace(c) == c = " "

\* the positions of s that hold no whitespace
Inked(s) == {i \in 1..Len(s) : ~IsSpace(s[i])}

\* s.trim()
Trim(s) ==
    IF Inked(s) = {} THEN <<>>
    ELSE SubSeq(s, CHOOSE i \in Inked(s) : \A k \in Inked(s) : i <= k,
                   CHOOSE i \in Inked(s) : \A k \in Inked(s) : k <= i)

\* s.split(/\s+/).length: one more than the number of maximal whitespace runs
SplitCount(s) ==
    1 + Cardinality({i \in 1..Len(s) : IsSpace(s[i]) /\ (i = 1 \/ ~IsSpace(s[i - 1]))})

\* text.trim().split(/\s+/).length
WordCount(text) == CHOOSE n \in {SplitCount(t) : t \in {Trim(text)}} : TRUE

(***************************************************************************)
(* transcription.ts: checkWebMIntegrity on a plain byte sequence.          *)
(***************************************************************************)
\* the magic 0x1A45DFA3 as its high and low 16-bit words (0x1A45, 0xDFA3)
WEBM_MAGIC == <<6725, 57251>>

\* data.readUInt32BE(0), as the pair of its high and low 16-bit words
ReadUInt32BE(data) == <<data[1] * 256 + data[2], data[3] * 256 + data[4]>>

\* a slip: only the first two bytes are compared
CheckHighWordOnly(data) ==
    Len(data) >= 4 /\ ReadUInt32BE(data)[1] = WEBM_MAGIC[1]

checkWebMIntegrity(data) ==
    Len(data) >= 4 /\ ReadUInt32BE(data) = WEBM_MAGIC

(***************************************************************************)
(* transcription.ts: appendWithOverlap.                                    *)
(***************************************************************************)
\* the loop "for (let i = max; i > 0; i--)": the first i whose prefix of
\* addition ends base, or 0 when the loop runs out
RECURSIVE OverlapFrom(_, _, _)
OverlapFrom(base, addition, i) ==
    IF i <= 0 THEN 0
    ELSE IF EndsWith(base, SliceTo(addition, i)) THEN i
    ELSE OverlapFrom(base, addition, i - 1)

\* a slip: the loop runs upwards and returns the shortest overlap
RECURSIVE ShortestOverlapFrom(_, _, _)
ShortestOverlapFrom(base, addition, i) ==
    IF i > Min(Len(base), Len(addition)) THEN 0
    ELSE IF EndsWith(base, SliceTo(addition, i)) THEN i
    ELSE ShortestOverlapFrom(base, addition, i + 1)

AppendShortestOverlap(base, addition) ==
    LET i == ShortestOverlapFrom(base, addition, 1)
    IN  <<base \o SliceFrom(addition, i), Len(addition) - i>>

\* a slip: the addition takes the place of the text so far
AppendOverwriting(base, addition) == <<addition, Len(addition)>>

appendWithOverlap(base, addition) ==
    LET additionSize == Len(addition)
        max == Min(Len(base), additionSize)
        i == OverlapFrom(base, addition, max)
    IN  <<base \o SliceFrom(addition, i), additionSize - i>>

(***************************************************************************)
(* Buffers (run-length encoded byte sequences).                            *)
(***************************************************************************)
\* buffer.length
RECURSIVE BufLen(_)
BufLen(b) == IF b = <<>> THEN 0 ELSE Head(b)[2] + BufLen(Tail(b))

\* Buffer.concat([a, b])
BufConcat(a, b) ==
    IF a = <<>> THEN b
    ELSE IF b = <<>> THEN a
    ELSE IF a[Len(a)][1] = b[1][1]
         THEN SubSeq(a, 1, Len(a) - 1)
                \o << <<b[1][1], a[Len(a)][2] + b[1][2]>> >> \o Tail(b)
         ELSE a \o b

\* the first n bytes of b, as a buffer
RECURSIVE BufTake(_, _)
BufTake(b, n) ==
    IF n <= 0 \/ b = <<>> THEN <<>>
    ELSE IF Head(b)[2] >= n THEN << <<Head(b)[1], n>> >>
    ELSE <<Head(b)>> \o BufTake(Tail(b), n - Head(b)[2])

\* the bytes of b, one element per byte
RECURSIVE BufBytes(_)
BufBytes(b) ==
    IF b = <<>> THEN <<>>
    ELSE [i \in 1..Head(b)[2] |-> Head(b)[1]] \o BufBytes(Tail(b))

\* checkWebMIntegrity on a Buffer: it reads the length and the first four bytes
BufferIsWebM(b) == checkWebMIntegrity(BufBytes(BufTake(b, 4)))

(***************************************************************************)
(* transcription.ts: hasVoiceActivity.                                     *)
(***************************************************************************)
MIN_AUDIO_SIZE_BYTES == 1000
\* Math.min(1000, buffer.length)
ACTIVITY_SAMPLE_SIZE == 1000
\* "return variance > 100"
VARIANCE_THRESHOLD == 100

\* sum of buffer[i] over the sample
RECURSIVE ByteSum(_)
ByteSum(b) == IF b = <<>> THEN 0 ELSE Head(b)[1] * Head(b)[2] + ByteSum(Tail(b))

\* sum of buffer[i]^2 over the sample
RECURSIVE ByteSquareSum(_)
ByteSquareSum(b) ==
    IF b = <<>> THEN 0
    ELSE Head(b)[1] * Head(b)[1] * Head(b)[2] + ByteSquareSum(Tail(b))

\* variance > threshold, for variance = sq/n - (sum/n)^2, in exact integer
\* arithmetic that stays below 2^31: with sum = q*n + r,
\*   sq/n - (sum/n)^2 > t   <=>   sq - q*sum - q*r - t*n > r*r/n
VarianceAbove(sample, n, t) ==
    \E sum \in {ByteSum(sample)}, sq \in {ByteSquareSum(sample)} :
        \E q \in {sum \div n}, r \in {sum % n} :
            sq - q * sum - q * r - t * n > (r * r) \div n

\* a slip: the size threshold is dropped, any varied block counts as speech
ActivityIgnoringSize(buffer) ==
    \E length \in {BufLen(buffer)} :
        /\ length > 0
        /\ \E sampleSize \in {Min(ACTIVITY_SAMPLE_SIZE, length)} :
             \E sample \in {BufTake(buffer, sampleSize)} :
                 VarianceAbove(sample, sampleSize, VARIANCE_THRESHOLD)

hasVoiceActivity(buffer) ==
    \E length \in {BufLen(buffer)} :
        /\ ~(length < MIN_AUDIO_SIZE_BYTES)
        /\ \E sampleSize \in {Min(ACTIVITY_SAMPLE_SIZE, length)} :
             \E sample \in {BufTake(buffer, sampleSize)} :
                 VarianceAbove(sample, sampleSize, VARIANCE_THRESHOLD)

(***************************************************************************)
(* util.ts and the per-connection configuration.                           *)
(***************************************************************************)
\* cutover threshold; the source has 8, the model cuts after 2 frames
MIN_CHUNK_NUM == 2
MIN_WORD_COUNT == 5
\* 1024 * 1024 * 5
MAX_AUDIO_BUFFER_SIZE == 5242880
\* new PQueue({ concurrency: 4 })
QUEUE_CONCURRENCY == 4
MAX_RETRIES == 2

\* most binary frames, stop messages and start messages of one connection
MaxBinary == 4
MaxStops == 2
MaxStarts == 2
MaxFrames == 6
MaxLiveFrames == 4
MaxCachedFrames == 5
MaxBusyFrames == 10
MaxRoundFrames == 6
MaxRoundBinary == 4
MaxSilentFrames == 8
MaxSilentBinary == 6

(***************************************************************************)
(* What the client sends.                                                  *)
(***************************************************************************)
\* a 500-byte chunk that opens with the container magic
HDR == << <<26, 1>>, <<69, 1>>, <<223, 1>>, <<163, 1>>, <<0, 496>> >>
\* a 1000-byte chunk of loud audio without the magic
VOICE == << <<0, 500>>, <<255, 500>> >>
\* a silent chunk that fills the buffer up to 1000 bytes below the limit
BIG == << <<0, MAX_AUDIO_BUFFER_SIZE - 1000>> >>

Chunks == {HDR, VOICE, BIG}

\* "Buffer.alloc(100, 0)": the silent chunk of the empty-audio test
emptyBuffer == << <<0, 100>> >>
\* a silent chunk of 1000 bytes
QUIET == << <<0, 1000>> >>

\* msg.blocks: a missing member, or the members in Object.keys order, each an
\* array of JSON strings or some other JSON value
NoBlocks == [present |-> FALSE, members |-> <<>>]
Blocks(members) == [present |-> TRUE, members |-> members]
ArrayOf(items) == [isArray |-> TRUE, items |-> items]
NotAnArray == [isArray |-> FALSE, items |-> <<>>]

\* {"id": ["name", "dob"]}
BlocksId == Blocks(<< <<"id", ArrayOf(<<"name", "dob">>)>> >>)
\* {"a": ["name"], "b": "oops", "c": ["name", "age"]}
BlocksMixed ==
    Blocks(<< <<"a", ArrayOf(<<"name">>)>>, <<"b", NotAnArray>>,
              <<"c", ArrayOf(<<"name", "age">>)>> >>)

StartPayloads == {NoBlocks, BlocksId, BlocksMixed}

(***************************************************************************)
(* What the external services answer.                                      *)
(***************************************************************************)
\* "xx yy zz ..." for the letters x, y, z, ...
RECURSIVE DoubledWords(_)
DoubledWords(letters) ==
    IF letters = <<>> THEN <<>>
    ELSE IF Len(letters) = 1 THEN <<letters[1], letters[1]>>
    ELSE <<letters[1], letters[1], " ">> \o DoubledWords(Tail(letters))

\* 1 word
TxtShort == <<"o", "k">>
\* 11 words, 32 characters
TxtLong == DoubledWords(<<"a", "b", "c", "d", "e", "f", "g", "h", "i", "j", "k">>)
\* 11 words, 32 characters, opening with the last two words of TxtLong
TxtFixed == DoubledWords(<<"j", "k", "l", "m", "n", "o", "p", "q", "r", "s", "t">>)

\* 2 words, 17 characters
TxtFew == <<"a", "a", "a", "a", "a", "a", "a", "a", " ",
            "b", "b", "b", "b", "b", "b", "b", "b">>

VAnn == <<"A", "n", "n">>
VBob == <<"B", "o", "b">>
VNA == <<"N", "/", "A">>
VBlank == <<" ">>
VEmpty == <<>>

Ok(v) == [kind |-> "ok", val |-> v]
Fails(why) == [kind |-> why, val |-> <<>>]

\* a response that is not ok: res.status and the body that res.text() gives
Refused(status, body) == [kind |-> "status", val |-> <<>>, status |-> status, body |-> body]
\* one request to the speech-to-text service: a text, a 400 response, or a
\* request that fails without a response
WhisperOutcomes == {Ok(TxtShort), Ok(TxtLong), Refused(400, <<>>), Fails("unavailable")}
\* the answers of a service that is short of capacity: a text, a 400 or a 429
\* response
BusyWhisperOutcomes == {Ok(TxtLong), Refused(400, <<>>), Refused(429, <<>>)}
\* the correction completion: a correctedText, no content, or a thrown error
ReviseOutcomes == {Ok(TxtFixed), Fails("empty"), Fails("throws")}
\* the extraction completion: parsedAttributes, no content, or a thrown error
ExtractOutcomes ==
    {Ok(("name" :> VAnn) @@ ("dob" :> VNA)), Fails("empty"), Fails("throws")}
\* the final sweep's completion: finalAttributes, no content, or a thrown error
FinalOutcomes ==
    {Ok(("name" :> VBob) @@ ("dob" :> VNA) @@ ("age" :> VBlank)),
     Fails("empty"), Fails("throws")}

(***************************************************************************)
(* parse-gpt.ts: the parts that decide what a call returns.                *)
(***************************************************************************)
\* {...a, ...b}
Spread(a, b) ==
    [k \in DOMAIN a \cup DOMAIN b |-> IF k \in DOMAIN b THEN b[k] ELSE a[k]]

EmptyObject == [k \in {} |-> <<>>]

\* "value && value !== 'N/A' && value.trim() !== ''"
Accepted(value) == value # <<>> /\ value # VNA /\ Trim(value) # <<>>

\* reviseTranscription returns rawText without a request
REVISE_MIN_LENGTH == 15
RevisesWithoutCall(rawText) == Len(Trim(rawText)) < REVISE_MIN_LENGTH

\* a slip: without a corrected text the result is the empty string
ReviseResultOrNothing(rawText, outcome) ==
    IF outcome.kind = "ok" /\ Trim(outcome.val) # <<>>
    THEN Trim(outcome.val)
    ELSE <<>>

\* what reviseTranscription returns for a completion that did not throw
ReviseResult(rawText, outcome) ==
    IF outcome.kind = "ok" /\ Trim(outcome.val) # <<>>
    THEN Trim(outcome.val)
    ELSE rawText

\* extractAttributesFromText returns {} without a request
EXTRACT_MIN_LENGTH == 20
ExtractsWithoutCall(correctedText, tmpl) ==
    Len(Trim(correctedText)) < EXTRACT_MIN_LENGTH \/ Len(tmpl) = 0

\* what extractAttributesFromText returns for a completion that did not throw
ExtractResult(outcome) ==
    IF outcome.kind = "ok"
    THEN [k \in {f \in DOMAIN outcome.val : Accepted(outcome.val[f])} |-> outcome.val[k]]
    ELSE EmptyObject

\* parseFinalAttributes returns candidateAttributes without a request
FINAL_MIN_LENGTH == 30
FinalWithoutCall(fullTranscript) == Len(Trim(fullTranscript)) < FINAL_MIN_LENGTH

\* a slip: the merge starts from an empty object instead of the candidates
MergeFinalFromEmpty(candidateAttributes, finalAttrs) ==
    [k \in {f \in DOMAIN finalAttrs : Accepted(finalAttrs[f])} |-> finalAttrs[k]]

\* the merge loop of parseFinalAttributes
MergeFinal(candidateAttributes, finalAttrs) ==
    [k \in DOMAIN candidateAttributes \cup {f \in DOMAIN finalAttrs : Accepted(finalAttrs[f])} |->
        IF k \in DOMAIN finalAttrs /\ Accepted(finalAttrs[k])
        THEN finalAttrs[k]
        ELSE candidateAttributes[k]]

\* How the completion of a request ends: Ok(v) is content that parses to an
\* object holding v under the expected key; Fails("empty") is no content,
\* Fails("unparseable") content that JSON.parse rejects, Fails("nokey") an
\* object without the key, Fails("throws") a rejected request.  A call of one
\* of the three functions ends the same way: Ok(v) returns v, Fails("throws")
\* raises to the caller.

reviseTranscription(rawText, completion) ==
    IF RevisesWithoutCall(rawText) THEN Ok(rawText)
    ELSE IF completion.kind = "throws" THEN completion
    ELSE Ok(ReviseResult(rawText, completion))

extractAttributesFromText(correctedText, tmpl, completion) ==
    IF ExtractsWithoutCall(correctedText, tmpl) THEN Ok(EmptyObject)
    ELSE IF completion.kind = "throws" THEN completion
    ELSE Ok(ExtractResult(completion))

parseFinalAttributes(fullTranscript, candidateAttributes, completion) ==
    IF FinalWithoutCall(fullTranscript) THEN Ok(candidateAttributes)
    ELSE IF completion.kind = "ok"
    THEN Ok(MergeFinal(candidateAttributes, completion.val))
    ELSE Ok(candidateAttributes)

(***************************************************************************)
(* State.                                                                  *)
(***************************************************************************)
VARIABLES
    \* the stitcher under test: its two inputs and its result (<<>> before the call)
    base, addition, stitched,
    \* the validator under test: its input and its result ("none" before the call)
    data, integrity,
    \* a function under test: the call (its name, its arguments and what the
    \* service answers) and how the call ends (<<>> before the call)
    asked, answer,
    \* the Map-based transcription cache of the server without the cache
    \* modules: its entries in insertion order, and Date.now()
    transcriptionCache, clock,
    \* WSState (util.ts); currAttributes is a reference into heap, webmHeader is
    \* [has |-> FALSE] for null
    nchunks, audioBuffer, transcript, currAttributes, template, webmHeader,
    currTranscriptSize,
    \* the objects that currAttributes and the candidateAttributes of the final
    \* sweeps in flight refer to
    heap,
    \* the jobs given to queue.add, in the order they were added
    jobs,
    \* the invocations of the stop handler, in the order the stops arrived
    stops,
    \* whether the socket is open
    open,
    \* what the last step passed to socket.send
    lastSent,
    \* "none": the event loop is between tasks; "batch": a frame handler has left
    \* continuations that run once the frames received with it are handled;
    \* "micro": continuations left by an earlier step run before anything else
    tick,
    \* frames received so far
    nBinary, nStarts,
    \* how many frames the client sends on this connection, and how many
    \* binary frames among them
    frameBudget,
    \* whether a handler of a text frame has ended with an exception that nothing
    \* catches (an unhandled rejection of the async listener)
    uncaught,
    \* the two module-level caches of the cache-enabled server (key -> text)
    audioCache, transcriptCache,
    \* the message handlers that serve a segment from the audio cache
    served

mapVars == <<transcriptionCache, clock>>
pureVars == <<base, addition, stitched, data, integrity, asked, answer, mapVars>>
stateVars == <<nchunks, audioBuffer, transcript, currAttributes, template, webmHeader,
               currTranscriptSize, heap>>
cacheVars == <<audioCache, transcriptCache, served>>
sessionVars == <<stateVars, jobs, stops, open, lastSent, tick, nBinary, nStarts,
                 frameBudget, uncaught, cacheVars>>
vars == <<pureVars, sessionVars>>

StrsUpTo(alphabet, n) == UNION {[1..k -> alphabet] : k \in 0..n}

NoHeader == [has |-> FALSE, buf |-> <<>>]
ObjIds == 1..(MaxStops + 2)

\* the state a connection starts with
\* a connection whose client sends so many frames, so many of them binary
Session(frames, binary) ==
    /\ nchunks = 0
    /\ audioBuffer = <<>>
    /\ transcript = <<>>
    /\ currAttributes = 1
    /\ template = <<>>
    /\ webmHeader = NoHeader
    /\ currTranscriptSize = 0
    /\ heap = [i \in ObjIds |-> EmptyObject]
    /\ jobs = <<>>
    /\ stops = <<>>
    /\ open = TRUE
    /\ lastSent = <<>>
    /\ tick = "none"
    /\ nBinary = 0
    /\ nStarts = 0
    /\ frameBudget = [frames |-> frames, binary |-> binary]
    /\ uncaught = FALSE
    /\ audioCache = EmptyObject
    /\ transcriptCache = EmptyObject
    /\ served = <<>>

Connected(budget) == Session(budget, MaxBinary)

SessionInit == Connected(MaxFrames)

NoCall == [fn |-> "none"]

PureIdle ==
    /\ base = <<>>
    /\ addition = <<>>
    /\ stitched = <<>>
    /\ data = <<>>
    /\ integrity = "none"
    /\ asked = NoCall
    /\ answer = <<>>
    /\ transcriptionCache = <<>>
    /\ clock = 0

(***************************************************************************)
(* The stitcher applied to every pair of short strings.                    *)
(***************************************************************************)
StitchInit ==
    /\ base \in StrsUpTo(StitchAlphabet, MaxStrLen)
    /\ addition \in StrsUpTo(StitchAlphabet, MaxStrLen)
    /\ stitched = <<>>
    /\ data = <<>>
    /\ integrity = "none"
    /\ asked = NoCall
    /\ answer = <<>>
    /\ transcriptionCache = <<>>
    /\ clock = 0
    /\ SessionInit

Stitch ==
    /\ stitched = <<>>
    /\ stitched' = appendWithOverlap(base, addition)
    /\ UNCHANGED <<base, addition, data, integrity, asked, answer, mapVars, sessionVars>>

StitchNext == Stitch

SpecStitch == StitchInit /\ [][StitchNext]_vars

(***************************************************************************)
(* The validator applied to every short byte block.                        *)
(***************************************************************************)
ValidatorInit ==
    /\ data \in StrsUpTo(ValidatorBytes, MaxDataLen)
    /\ integrity = "none"
    /\ base = <<>>
    /\ addition = <<>>
    /\ stitched = <<>>
    /\ asked = NoCall
    /\ answer = <<>>
    /\ transcriptionCache = <<>>
    /\ clock = 0
    /\ SessionInit

Validate ==
    /\ integrity = "none"
    /\ integrity' = IF checkWebMIntegrity(data) THEN "true" ELSE "false"
    /\ UNCHANGED <<base, addition, stitched, data, asked, answer, mapVars, sessionVars>>

ValidatorNext == Validate

SpecValidator == ValidatorInit /\ [][ValidatorNext]_vars

(***************************************************************************)
(* p-queue as the handler uses it: queue.add, the queue's own scheduling,  *)
(* queue.onIdle and queue.clear.  A job is "queued" until the queue calls  *)
(* its function, then at one of its awaits, then "done"; queue.clear       *)
(* leaves a queued job "cleared".                                          *)
(***************************************************************************)
\* the jobs whose function has been called and has not returned
QueuePending(js) ==
    {j \in DOMAIN js : js[j].pc \in {"whisper", "rawReady", "revise", "extract"}}
\* the jobs that wait for a free slot
QueueSize(js) == {j \in DOMAIN js : js[j].pc = "queued"}
\* what queue.onIdle() waits for
QueueIdle(js) == QueuePending(js) = {} /\ QueueSize(js) = {}

NewJob(captureBuffer) ==
    [pc |-> "queued", buf |-> captureBuffer, attempt |-> 0, text |-> <<>>]
\* (a job that has returned keeps what its extraction gave it to merge)
DoneJob == [pc |-> "done", buf |-> <<>>, attempt |-> 0, text |-> <<>>, got |-> EmptyObject]
ClearedJob == [pc |-> "cleared", buf |-> <<>>, attempt |-> 0, text |-> <<>>]

\* the job's function up to its first await: runWhisperOnBuffer returns ""
\* without a request when its pre-flight check fails, and sends the first
\* request otherwise
RunJob(job) ==
    IF hasVoiceActivity(job.buf)
    THEN [job EXCEPT !.pc = "whisper", !.attempt = 1]
    ELSE [job EXCEPT !.pc = "rawReady", !.buf = <<>>]

\* a slip: the queue calls every job at once, whatever its concurrency
QueueAddUnbounded(js, captureBuffer) == Append(js, RunJob(NewJob(captureBuffer)))

\* queue.add(job): the job runs at once while fewer than 4 are running
QueuePut(js, job) ==
    Append(js, IF Cardinality(QueuePending(js)) < QUEUE_CONCURRENCY
               THEN RunJob(job)
               ELSE job)

QueueAdd(js, captureBuffer) == QueuePut(js, NewJob(captureBuffer))

\* job j returns: the queue calls the job that has waited longest, if any
QueueNext(js, j) ==
    LET done == [js EXCEPT ![j] = DoneJob]
        waiting == QueueSize(done)
    IN  IF waiting = {} THEN done
        ELSE LET n == CHOOSE n \in waiting : \A m \in waiting : n <= m
             IN  [done EXCEPT ![n] = RunJob(done[n])]

\* a slip: the queue is left as it is
QueueClearNothing(js) == js

\* queue.clear()
QueueClear(js) ==
    [j \in DOMAIN js |-> IF js[j].pc = "queued" THEN ClearedJob ELSE js[j]]

(***************************************************************************)
(* Invocations of the stop handler.                                        *)
(***************************************************************************)
\* "await queue.onIdle()": the promise is already resolved when the queue is
\* idle at the call ("drained"), and else resolves with the queue's idle
\* event ("drain", then "resume")
NewStop(idle, arrived) ==
    [pc |-> IF idle THEN "drained" ELSE "drain", attempt |-> 0, buf |-> <<>>,
     text |-> <<>>, cand |-> 0, arrived |-> arrived, waited |-> ~idle, sent |-> 0,
     swept |-> FALSE]
DoneStop(st) == [st EXCEPT !.pc = "done", !.attempt = 0, !.buf = <<>>, !.text = <<>>,
                           !.cand = 0, !.sent = @ + 1]

\* a slip: the idle event is never delivered
WakeNever(st, js) == st

\* a slip: the idle event is not awaited
WakeAlways(st, js) ==
    [s \in DOMAIN st |-> IF st[s].pc = "drain" THEN [st[s] EXCEPT !.pc = "resume"] ELSE st[s]]

\* the queue's idle event resolves every onIdle() promise
WakeStops(st, js) ==
    IF QueueIdle(js)
    THEN [s \in DOMAIN st |->
            IF st[s].pc = "drain" THEN [st[s] EXCEPT !.pc = "resume"] ELSE st[s]]
    ELSE st

(***************************************************************************)
(* The event loop: continuations of resolved promises run before the next  *)
(* I/O event; frames that arrived together are handled one after another   *)
(* before the continuations their handlers left.                           *)
(***************************************************************************)
\* frames the client has sent on this connection
FramesSoFar == nBinary + nStarts + Len(stops)

Ready(js, st) ==
    \/ \E j \in DOMAIN js : js[j].pc = "rawReady"
    \/ \E s \in DOMAIN st : st[s].pc \in {"drained", "resume"}

AfterFrame(js, st) == IF Ready(js, st) THEN "batch" ELSE "none"
AfterTask(js, st) == IF Ready(js, st) THEN "micro" ELSE "none"

(***************************************************************************)
(* The attribute objects.                                                  *)
(***************************************************************************)
Refs(cur, st) == {cur} \cup {st[s].cand : s \in {x \in DOMAIN st : st[x].pc = "sweep"}}
FreshObj(cur, st) ==
    CHOOSE i \in ObjIds \ Refs(cur, st) : \A k \in ObjIds \ Refs(cur, st) : i <= k
\* objects nothing refers to any more are forgotten
Collect(h, cur, st) ==
    [i \in ObjIds |-> IF i \in Refs(cur, st) THEN h[i] ELSE EmptyObject]

\* state.currAttributes as the handler reads it
Attributes == heap[currAttributes]

\* socket.send(JSON.stringify(msg)) by a frame handler ("start", "binary"), by
\* job id or by stop invocation id; note records which external call of the
\* sender failed, if any
Sent(from, id, note, msg) ==
    <<[from |-> from, id |-> id, note |-> note, live |-> open, msg |-> msg]>>

Update(text, attrs) == [corrected_audio |-> text, attributes |-> attrs]
ErrorOnly(code) == [error |-> code]

(***************************************************************************)
(* socket.on("message"): a text frame that JSON.parse rejects.  (Such      *)
(* frames are not counted among the frames of the budget, which the client *)
(* spends on start, stop and binary frames; it sends them while it has     *)
(* frames left to send.)                                                   *)
(***************************************************************************)
\* a slip: the handler starts the segment afresh
BadJsonResets ==
    /\ open
    /\ tick # "micro"
    /\ FramesSoFar < frameBudget.frames
    /\ lastSent' = Sent("text", 0, "none", ErrorOnly("bad-json"))
    /\ audioBuffer' = <<>>
    /\ nchunks' = 0
    /\ UNCHANGED <<transcript, currAttributes, template, webmHeader, currTranscriptSize,
                   heap, jobs, stops, open, tick, nBinary, nStarts, frameBudget, uncaught,
                   pureVars, cacheVars>>

BadJsonFrame ==
    /\ open
    /\ tick # "micro"
    /\ FramesSoFar < frameBudget.frames
    /\ lastSent' = Sent("text", 0, "none", ErrorOnly("bad-json"))
    /\ UNCHANGED <<stateVars, jobs, stops, open, tick, nBinary, nStarts, frameBudget, uncaught,
                   pureVars, cacheVars>>

(***************************************************************************)
(* socket.on("message"): a start message.                                  *)
(***************************************************************************)
\* String(field) for a JSON string
JsString(field) == field

\* a slip: only the first field of a block is taken
FieldsOfFirstOnly(name, block) ==
    IF ~block.isArray \/ block.items = <<>> THEN <<>>
    ELSE <<[block_name |-> name, field_name |-> JsString(block.items[1])]>>

FieldsOfBlock(name, block) ==
    IF ~block.isArray THEN <<>>
    ELSE [i \in 1..Len(block.items) |->
            [block_name |-> name, field_name |-> JsString(block.items[i])]]

\* the FieldDefs the two loops push, in order
RECURSIVE PushedFields(_)
PushedFields(members) ==
    IF members = <<>> THEN <<>>
    ELSE FieldsOfBlock(Head(members)[1], Head(members)[2]) \o PushedFields(Tail(members))

\* a slip: the template is filled again by every start
PushedAlways(tmpl, blocks) ==
    IF blocks.present THEN PushedFields(blocks.members) ELSE <<>>

\* what a start message adds to the template
Pushed(tmpl, blocks) ==
    IF Len(tmpl) = 0 /\ blocks.present THEN PushedFields(blocks.members) ELSE <<>>

StartFrame(blocks) ==
    /\ UNCHANGED cacheVars
    /\ open
    /\ tick # "micro"
    /\ nStarts < MaxStarts /\ FramesSoFar < frameBudget.frames
    /\ nStarts' = nStarts + 1
    /\ LET pushed == Pushed(template, blocks)
           names == {pushed[i].field_name : i \in DOMAIN pushed}
       IN  /\ template' = template \o pushed
           /\ heap' = [heap EXCEPT ![currAttributes] = Spread(@, [k \in names |-> VEmpty])]
           /\ lastSent' = Sent("start", 0, "none",
                               [action |-> "started", template_size |-> Len(template')])
    /\ UNCHANGED <<nchunks, audioBuffer, transcript, currAttributes, webmHeader,
                   currTranscriptSize, jobs, stops, open, tick, nBinary, frameBudget, uncaught,
                   pureVars>>

(***************************************************************************)
(* socket.on("message"): a text frame that holds JSON but neither a start  *)
(* nor a stop.  "msg.action" is read outside every try block: it is        *)
(* undefined for a number, a string, an array and an object without that   *)
(* member, and the handler returns; for null the read throws a TypeError   *)
(* that leaves the async listener, which the runtime reports as an         *)
(* unhandled rejection (and which ends the process where that is the       *)
(* runtime's default).                                                     *)
(***************************************************************************)
JsonValues == {"null", "number", "string", "array", "object"}

ReadsAction(value) == value # "null"

JsonFrame(value) ==
    /\ open
    /\ tick # "micro"
    /\ FramesSoFar < frameBudget.frames
    /\ uncaught' = (uncaught \/ ~ReadsAction(value))
    /\ lastSent' = <<>>
    /\ UNCHANGED <<stateVars, jobs, stops, open, tick, nBinary, nStarts, frameBudget,
                   pureVars, cacheVars>>

(***************************************************************************)
(* socket.on("message"): a binary frame.                                   *)
(***************************************************************************)
\* a slip: the limit is checked against the chunk alone
OverflowsChunkOnly(buffer, chunk) == BufLen(chunk) > MAX_AUDIO_BUFFER_SIZE

Overflows(buffer, chunk) == BufLen(buffer) + BufLen(chunk) > MAX_AUDIO_BUFFER_SIZE

\* "if (!checkWebMIntegrity(buffer) && state.webmHeader)" prepend the header
Repaired(buffer, header) ==
    IF ~BufferIsWebM(buffer) /\ header.has THEN BufConcat(header.buf, buffer) ELSE buffer

\* a slip: the segment is cut one chunk later
BelowThresholdOrAt(n) == n <= MIN_CHUNK_NUM

\* "state.nchunks++; if (state.nchunks < MIN_CHUNK_NUM) return;"
BelowThreshold(n) == n < MIN_CHUNK_NUM

\* a slip: the cutover schedules the job without asking the gate
CutoverUngated(js, buffer, header) == QueueAdd(js, Repaired(buffer, header))

\* the cutover: "if (!hasVoiceActivity(state.audioBuffer)) { ... return; }", then
\* the header prepend and queue.add
Cutover(js, buffer, header) ==
    IF hasVoiceActivity(buffer) THEN QueueAdd(js, Repaired(buffer, header)) ELSE js

BinaryFrame(chunk) ==
    /\ UNCHANGED cacheVars
    /\ open
    /\ tick # "micro"
    /\ nBinary < frameBudget.binary /\ FramesSoFar < frameBudget.frames
    /\ nBinary' = nBinary + 1
    /\ IF Overflows(audioBuffer, chunk)
       THEN /\ lastSent' = Sent("binary", 0, "none", ErrorOnly("audio-buffer-overflow"))
            /\ UNCHANGED <<stateVars, jobs, tick>>
       ELSE LET header == IF ~webmHeader.has /\ BufferIsWebM(chunk)
                          THEN [has |-> TRUE, buf |-> chunk]
                          ELSE webmHeader
                buffer == BufConcat(audioBuffer, chunk)
            IN  /\ webmHeader' = header
                /\ lastSent' = <<>>
                /\ IF BelowThreshold(nchunks + 1)
                   THEN /\ audioBuffer' = buffer
                        /\ nchunks' = nchunks + 1
                        /\ UNCHANGED jobs
                   ELSE /\ audioBuffer' = <<>>
                        /\ nchunks' = 0
                        /\ jobs' = Cutover(jobs, buffer, header)
                /\ tick' = AfterFrame(jobs', stops)
                /\ UNCHANGED <<transcript, currAttributes, template,
                               currTranscriptSize, heap>>
    /\ UNCHANGED <<stops, open, nStarts, frameBudget, uncaught, pureVars>>

(***************************************************************************)
(* socket.on("message"): a stop message, up to "await queue.onIdle()".     *)
(***************************************************************************)
StopFrame ==
    /\ UNCHANGED cacheVars
    /\ open
    /\ tick # "micro"
    /\ Len(stops) < MaxStops /\ FramesSoFar < frameBudget.frames
    /\ stops' = Append(stops, NewStop(QueueIdle(jobs), Len(jobs)))
    /\ tick' = AfterFrame(jobs, stops')
    /\ lastSent' = <<>>
    /\ UNCHANGED <<stateVars, jobs, open, nBinary, nStarts, frameBudget, uncaught, pureVars>>

(***************************************************************************)
(* socket.on("close").                                                     *)
(***************************************************************************)
Close ==
    /\ UNCHANGED cacheVars
    /\ open
    /\ tick = "none"
    /\ open' = FALSE
    /\ jobs' = QueueClear(jobs)
    /\ lastSent' = <<>>
    /\ UNCHANGED <<stateVars, stops, tick, nBinary, nStarts, frameBudget, uncaught, pureVars>>

(***************************************************************************)
(* The job given to queue.add, from one await to the next.                 *)
(***************************************************************************)
\* ("\E x \in {e} : ..." names the value of e, as a const declaration does)
\* what every step after a frame leaves alone, and how the event loop goes on
Step(js, st, sent) ==
    /\ jobs' = js
    /\ stops' = st
    /\ lastSent' = sent
    /\ tick' = AfterTask(js, st)
    /\ UNCHANGED <<open, nBinary, nStarts, frameBudget, uncaught, pureVars>>

AtAwait(job, pc, text) == [job EXCEPT !.pc = pc, !.buf = <<>>, !.attempt = 0, !.text = text]

\* String.prototype.includes
Includes(text, part) ==
    \E i \in 0..(Len(text) - Len(part)) : SubSeq(text, i + 1, i + Len(part)) = part

\* the decimal digits of a status code
Digits(n) ==
    LET digit == <<"0", "1", "2", "3", "4", "5", "6", "7", "8", "9">>
    IN  <<digit[(n \div 100) + 1], digit[((n \div 10) % 10) + 1], digit[(n % 10) + 1]>>

\* error.message: `Whisper API error ${res.status}: ${err}` for a response
\* that is not ok, and the message of fetch for a request without response
ErrorMessage(outcome) ==
    IF outcome.kind = "status"
    THEN <<"W", "h", "i", "s", "p", "e", "r", " ", "A", "P", "I", " ",
           "e", "r", "r", "o", "r", " ">>
         \o Digits(outcome.status) \o <<":", " ">> \o outcome.body
    ELSE <<"f", "e", "t", "c", "h", " ", "f", "a", "i", "l", "e", "d">>

\* a slip: the loop has no bound of its own
WhisperGivesUpOnBreak(outcome, attempt) ==
    Includes(ErrorMessage(outcome), <<"4", "0", "0">>)

\* runWhisperOnBuffer: "break" on a message that includes '400', and no
\* further attempt after MAX_RETRIES
WhisperGivesUp(outcome, attempt) ==
    Includes(ErrorMessage(outcome), <<"4", "0", "0">>) \/ attempt >= MAX_RETRIES

\* the job's function returns and leaves the session as it is
JobReturns(j, sent) ==
    \E js \in {QueueNext(jobs, j)} :
        /\ \E st \in {WakeStops(stops, js)} : Step(js, st, sent)
        /\ UNCHANGED stateVars

\* a slip: the catch block only logs
JobFailsSilently(j, note) == JobReturns(j, <<>>)

\* the catch block of the job
JobFails(j, note) ==
    JobReturns(j, Sent("job", j, note, ErrorOnly("transcription-failed")))

\* a slip: the merge keeps only what this segment extracted
MergeExtractedOnly(attrs, extracted) == extracted

\* "{ ...state.currAttributes, ...extractedAttributes }"
MergeExtracted(attrs, extracted) == Spread(attrs, extracted)

\* extractAttributesFromText has returned: merge, send the update, return
JobExtracted(j, extracted, tr, sz, win) ==
    \E js \in {[QueueNext(jobs, j) EXCEPT ![j].got = extracted]}, obj \in {FreshObj(currAttributes, stops)},
       merged \in {MergeExtracted(Attributes, extracted)} :
      \E st \in {WakeStops(stops, js)} :
        /\ transcript' = tr
        /\ currTranscriptSize' = sz
        /\ currAttributes' = obj
        /\ heap' = Collect([heap EXCEPT ![obj] = merged], obj, st)
        /\ Step(js, st, Sent("job", j, "none", Update(win, merged)))
        /\ UNCHANGED <<nchunks, audioBuffer, template, webmHeader>>

\* reviseTranscription has returned: word count, stitch, window, extraction
JobRevised(j, revisedTranscript) ==
    IF WordCount(revisedTranscript) < MIN_WORD_COUNT
    THEN JobReturns(j, <<>>)
    ELSE \E st \in {appendWithOverlap(transcript, revisedTranscript)} :
           \E currTranscript \in {SliceLast(st[1], currTranscriptSize + st[2])} :
             IF ExtractsWithoutCall(currTranscript, template)
             THEN JobExtracted(j, EmptyObject, st[1], st[2], currTranscript)
             ELSE /\ transcript' = st[1]
                  /\ currTranscriptSize' = st[2]
                  /\ Step([jobs EXCEPT ![j] = AtAwait(@, "extract", currTranscript)],
                          stops, <<>>)
                  /\ UNCHANGED <<nchunks, audioBuffer, currAttributes, template,
                                 webmHeader, heap>>

\* runWhisperOnBuffer has returned
JobRaw(j, transcription) ==
    IF RevisesWithoutCall(transcription)
    THEN JobRevised(j, transcription)
    ELSE /\ Step([jobs EXCEPT ![j] = AtAwait(@, "revise", transcription)], stops, <<>>)
         /\ UNCHANGED stateVars

\* runWhisperOnBuffer returned "" without a request
JobRawReady(j) ==
    /\ UNCHANGED cacheVars
    /\ jobs[j].pc = "rawReady"
    /\ JobRaw(j, <<>>)

\* a request to the speech-to-text service ends
JobWhisperResponse(j, outcome) ==
    /\ UNCHANGED cacheVars
    /\ tick = "none"
    /\ jobs[j].pc = "whisper"
    /\ IF outcome.kind = "ok" THEN JobRaw(j, outcome.val)
       ELSE IF WhisperGivesUp(outcome, jobs[j].attempt) THEN JobFails(j, "whisper")
       ELSE /\ Step([jobs EXCEPT ![j].attempt = @ + 1], stops, <<>>)
            /\ UNCHANGED stateVars

\* the correction completion ends
JobReviseResponse(j, outcome) ==
    /\ UNCHANGED cacheVars
    /\ tick = "none"
    /\ jobs[j].pc = "revise"
    /\ IF outcome.kind = "throws" THEN JobFails(j, "revise")
       ELSE \E revisedTranscript \in {ReviseResult(jobs[j].text, outcome)} :
                JobRevised(j, revisedTranscript)

\* the extraction completion ends
JobExtractResponse(j, outcome) ==
    /\ UNCHANGED cacheVars
    /\ tick = "none"
    /\ jobs[j].pc = "extract"
    /\ IF outcome.kind = "throws" THEN JobFails(j, "extract")
       ELSE JobExtracted(j, ExtractResult(outcome), transcript, currTranscriptSize,
                         jobs[j].text)

(***************************************************************************)
(* The stop handler after "await queue.onIdle()", from one await to the    *)
(* next.                                                                   *)
(***************************************************************************)
Final(text, attrs) == [corrected_audio |-> text, attributes |-> attrs]
FinalFailed(text, attrs) ==
    [corrected_audio |-> text, attributes |-> attrs, error |-> "final-processing-failed"]

\* one of the three socket.send calls of the stop handler, and its return
StopEnds(invocations, s, tr, sz, cur, hp, note, msg) ==
    \E st \in {[invocations EXCEPT ![s] = DoneStop(@)]} :
        /\ transcript' = tr
        /\ currTranscriptSize' = sz
        /\ currAttributes' = cur
        /\ heap' = Collect(hp, cur, st)
        /\ Step(jobs, st, Sent("stop", s, note, msg))
        /\ UNCHANGED template

StopResponds(s, tr, sz, cur, hp, note, msg) ==
    StopEnds(stops, s, tr, sz, cur, hp, note, msg)

\* the catch block of the stop handler
StopFails(s, note) ==
    StopResponds(s, transcript, currTranscriptSize, currAttributes, heap, note,
                 FinalFailed(transcript, Attributes))

\* "state.currAttributes = await parseFinalAttributes(...)" up to the request;
\* without a request the candidate object itself comes back
StopSweep(s, tr, sz) ==
    IF FinalWithoutCall(tr)
    THEN StopEnds([stops EXCEPT ![s].swept = TRUE], s, tr, sz, currAttributes, heap,
                  "none", Final(tr, Attributes))
    ELSE /\ transcript' = tr
         /\ currTranscriptSize' = sz
         /\ Step(jobs, [stops EXCEPT ![s] = [@ EXCEPT !.pc = "sweep", !.attempt = 0,
                                                     !.text = <<>>, !.buf = <<>>,
                                                     !.cand = currAttributes,
                                                     !.swept = TRUE]], <<>>)
         /\ UNCHANGED <<currAttributes, template, heap>>

\* the handler goes on after the drain
StopResume(s) ==
    /\ UNCHANGED cacheVars
    /\ stops[s].pc \in {"drained", "resume"}
    /\ IF BufLen(audioBuffer) = 0
       THEN /\ StopResponds(s, transcript, currTranscriptSize, currAttributes, heap,
                            "none", Final(transcript, Attributes))
            /\ UNCHANGED <<nchunks, audioBuffer, webmHeader>>
       ELSE \E remainingData \in {Repaired(audioBuffer, webmHeader)} :
                /\ audioBuffer' = <<>>
                /\ nchunks' = 0
                /\ webmHeader' = NoHeader
                /\ IF ~hasVoiceActivity(remainingData)
                   THEN StopSweep(s, transcript, currTranscriptSize)
                   ELSE /\ Step(jobs, [stops EXCEPT ![s] =
                                    [@ EXCEPT !.pc = "whisper", !.attempt = 1,
                                              !.buf = remainingData]], <<>>)
                        /\ UNCHANGED <<transcript, currAttributes, template,
                                       currTranscriptSize, heap>>

\* a request of the residual transcription ends
StopWhisperResponse(s, outcome) ==
    /\ UNCHANGED cacheVars
    /\ tick = "none"
    /\ stops[s].pc = "whisper"
    /\ UNCHANGED <<nchunks, audioBuffer, webmHeader>>
    /\ IF outcome.kind = "ok"
       THEN IF WordCount(outcome.val) >= MIN_WORD_COUNT
            THEN IF RevisesWithoutCall(outcome.val)
                 THEN \E st \in {appendWithOverlap(transcript, outcome.val)} :
                          StopSweep(s, st[1], st[2])
                 ELSE /\ Step(jobs, [stops EXCEPT ![s] =
                                  [@ EXCEPT !.pc = "revise", !.attempt = 0,
                                            !.buf = <<>>, !.text = outcome.val]], <<>>)
                      /\ UNCHANGED <<transcript, currAttributes, template,
                                     currTranscriptSize, heap>>
            ELSE StopSweep(s, transcript, currTranscriptSize)
       ELSE IF WhisperGivesUp(outcome, stops[s].attempt) THEN StopFails(s, "whisper")
       ELSE /\ Step(jobs, [stops EXCEPT ![s].attempt = @ + 1], <<>>)
            /\ UNCHANGED <<transcript, currAttributes, template, currTranscriptSize, heap>>

\* the correction completion of the residual ends
StopReviseResponse(s, outcome) ==
    /\ UNCHANGED cacheVars
    /\ tick = "none"
    /\ stops[s].pc = "revise"
    /\ UNCHANGED <<nchunks, audioBuffer, webmHeader>>
    /\ IF outcome.kind = "throws" THEN StopFails(s, "revise")
       ELSE \E finalTranscription \in {ReviseResult(stops[s].text, outcome)} :
              \E st \in {appendWithOverlap(transcript, finalTranscription)} :
                StopSweep(s, st[1], st[2])

\* the final sweep's completion ends: parseFinalAttributes returns the merged
\* copy, or the candidate object itself after an empty completion or an error
\* (which it catches), and the handler assigns and responds
StopSweepResponse(s, outcome) ==
    /\ UNCHANGED cacheVars
    /\ tick = "none"
    /\ stops[s].pc = "sweep"
    /\ UNCHANGED <<nchunks, audioBuffer, webmHeader>>
    /\ \E cand \in {stops[s].cand}, obj \in {FreshObj(currAttributes, stops)} :
         \E result \in {IF outcome.kind = "ok" THEN obj ELSE cand},
            hp \in {IF outcome.kind = "ok"
                    THEN [heap EXCEPT ![obj] = MergeFinal(heap[cand], outcome.val)]
                    ELSE heap} :
           StopResponds(s, transcript, currTranscriptSize, result, hp,
                        IF outcome.kind = "throws" THEN "sweep" ELSE "none",
                        Final(transcript, hp[result]))

(***************************************************************************)
(* One connection of the server.                                           *)
(***************************************************************************)
Init == PureIdle /\ SessionInit

Next ==
    \/ BadJsonFrame
    \/ \E blocks \in StartPayloads : StartFrame(blocks)
    \/ \E chunk \in Chunks : BinaryFrame(chunk)
    \/ StopFrame
    \/ Close
    \/ \E j \in DOMAIN jobs : JobRawReady(j)
    \/ \E j \in DOMAIN jobs, outcome \in WhisperOutcomes : JobWhisperResponse(j, outcome)
    \/ \E j \in DOMAIN jobs, outcome \in ReviseOutcomes : JobReviseResponse(j, outcome)
    \/ \E j \in DOMAIN jobs, outcome \in ExtractOutcomes : JobExtractResponse(j, outcome)
    \/ \E s \in DOMAIN stops : StopResume(s)
    \/ \E s \in DOMAIN stops, outcome \in WhisperOutcomes : StopWhisperResponse(s, outcome)
    \/ \E s \in DOMAIN stops, outcome \in ReviseOutcomes : StopReviseResponse(s, outcome)
    \/ \E s \in DOMAIN stops, outcome \in FinalOutcomes : StopSweepResponse(s, outcome)

Spec == Init /\ [][Next]_vars

\* every continuation that can run does run, and every external call in flight
\* ends: the steps of the server, as opposed to those of the client
Progress ==
    \/ \E j \in DOMAIN jobs : JobRawReady(j)
    \/ \E j \in DOMAIN jobs, outcome \in WhisperOutcomes : JobWhisperResponse(j, outcome)
    \/ \E j \in DOMAIN jobs, outcome \in ReviseOutcomes : JobReviseResponse(j, outcome)
    \/ \E j \in DOMAIN jobs, outcome \in ExtractOutcomes : JobExtractResponse(j, outcome)
    \/ \E s \in DOMAIN stops : StopResume(s)
    \/ \E s \in DOMAIN stops, outcome \in WhisperOutcomes : StopWhisperResponse(s, outcome)
    \/ \E s \in DOMAIN stops, outcome \in ReviseOutcomes : StopReviseResponse(s, outcome)
    \/ \E s \in DOMAIN stops, outcome \in FinalOutcomes : StopSweepResponse(s, outcome)

\* a connection on which the client sends fewer frames
LiveInit == PureIdle /\ Connected(MaxLiveFrames)

FairSpec == LiveInit /\ [][Next]_vars /\ WF_vars(Progress)

\* the same connection with a client that also sends other JSON values
JsonNext ==
    \/ Next
    \/ \E value \in JsonValues : JsonFrame(value)

SpecJson == LiveInit /\ [][JsonNext]_vars

(***************************************************************************)
(* One connection with a client that sends nothing but loud audio, more of *)
(* it than the queue takes at once, and services that answer every request *)
(* with a text or a refusal.                                               *)
(***************************************************************************)
BusyInit == PureIdle /\ Session(MaxBusyFrames, MaxBusyFrames)

BusyNext ==
    \/ BinaryFrame(VOICE)
    \/ Close
    \/ \E j \in DOMAIN jobs, outcome \in BusyWhisperOutcomes :
         JobWhisperResponse(j, outcome)
    \/ \E j \in DOMAIN jobs : JobReviseResponse(j, Ok(TxtFixed))

SpecBusy == BusyInit /\ [][BusyNext]_vars

(***************************************************************************)
(* One connection with a client that records several times, one recording *)
(* after the final response of the one before: it sends a start message    *)
(* first, then header chunks, loud chunks, start and stop messages, and    *)
(* every service answers every request with a text or with attributes.     *)
(***************************************************************************)
\* every stop message sent so far has had its final response
Answered == \A s \in DOMAIN stops : stops[s].pc = "done"

RoundsInit == PureIdle /\ Session(MaxRoundFrames, MaxRoundBinary)

RoundsProgress ==
    \/ \E j \in DOMAIN jobs : JobRawReady(j)
    \/ \E j \in DOMAIN jobs, outcome \in {Ok(TxtLong), Ok(TxtFew)} :
         JobWhisperResponse(j, outcome)
    \/ \E j \in DOMAIN jobs, outcome \in {Ok(TxtFixed), Fails("empty")} :
         JobReviseResponse(j, outcome)
    \/ \E j \in DOMAIN jobs, outcome \in {o \in ExtractOutcomes : o.kind = "ok"} :
         JobExtractResponse(j, outcome)
    \/ \E s \in DOMAIN stops : StopResume(s)
    \/ \E s \in DOMAIN stops : StopWhisperResponse(s, Ok(TxtLong))
    \/ \E s \in DOMAIN stops : StopReviseResponse(s, Ok(TxtFixed))
    \/ \E s \in DOMAIN stops, outcome \in {o \in FinalOutcomes : o.kind = "ok"} :
         StopSweepResponse(s, outcome)

RoundsNext ==
    \/ Answered /\ StartFrame(BlocksId)
    \/ \E chunk \in {HDR, VOICE} : Answered /\ nStarts > 0 /\ BinaryFrame(chunk)
    \/ Answered /\ nStarts > 0 /\ StopFrame
    \/ RoundsProgress

SpecRounds == RoundsInit /\ [][RoundsNext]_vars /\ WF_vars(RoundsProgress)

\* the same client when the first chunk of the connection is a header chunk:
\* the connection has captured its header before any segment is cut
HeaderFirstNext ==
    \/ Answered /\ StartFrame(BlocksId)
    \/ \E chunk \in {HDR, VOICE} :
         Answered /\ nStarts > 0 /\ (nBinary = 0 => chunk = HDR) /\ BinaryFrame(chunk)
    \/ Answered /\ nStarts > 0 /\ StopFrame
    \/ RoundsProgress

SpecHeaderFirst == RoundsInit /\ [][HeaderFirstNext]_vars

(***************************************************************************)
(* One connection with a client whose audio never passes the voice-activity *)
(* gate: every chunk it sends leaves a buffer that the gate rejects, with    *)
(* and without the stored header in front of it.                            *)
(***************************************************************************)
SilentInit == PureIdle /\ Session(MaxSilentFrames, MaxSilentBinary)

SilentChunks == {HDR, emptyBuffer, QUIET}

\* the header of the connection after the chunk has been received
HeaderAfter(chunk) ==
    IF ~webmHeader.has /\ BufferIsWebM(chunk) THEN [has |-> TRUE, buf |-> chunk]
    ELSE webmHeader

GateRejects(chunk) ==
    \E buffer \in {BufConcat(audioBuffer, chunk)} :
        /\ ~hasVoiceActivity(buffer)
        /\ ~hasVoiceActivity(Repaired(buffer, HeaderAfter(chunk)))

SilentNext ==
    \/ StartFrame(BlocksId)
    \/ \E chunk \in SilentChunks : GateRejects(chunk) /\ BinaryFrame(chunk)
    \/ StopFrame
    \/ \E s \in DOMAIN stops : StopResume(s)

SpecSilent ==
    SilentInit /\ [][SilentNext]_vars /\ WF_vars(\E s \in DOMAIN stops : StopResume(s))

(***************************************************************************)
(* The cache-enabled server: the same connection handler with the audio    *)
(* cache and the transcript cache in front of the external calls.          *)
(***************************************************************************)
\* "buffer.toString('base64').slice(0, 64)": base64 writes three bytes as four
\* characters, so the key is the first 48 bytes
AUDIO_KEY_CHARS == 64
createAudioKey(buffer) == BufTake(buffer, (AUDIO_KEY_CHARS \div 4) * 3)

\* "murmur2(transcript).toString()", on texts whose hashes differ
createTranscriptKey(text) == <<"murmur2", text>>

\* "if (cached)" after "cache.get(key) ?? null": the entry is there and is
\* not the empty string
CacheHit(cache, key) == key \in DOMAIN cache /\ cache[key] # <<>>

\* cache.set(key, value)
CacheSet(cache, key, value) ==
    [k \in DOMAIN cache \cup {key} |-> IF k = key THEN value ELSE cache[k]]

\* the entry has outlived maxAge, or the cache has evicted it
CacheDrop(cache, key) == [k \in DOMAIN cache \ {key} |-> cache[k]]

\* the fields pushed before "block.forEach" meets a member that is no array
\* and throws
RECURSIVE ForEachFields(_)
ForEachFields(members) ==
    IF members = <<>> \/ ~Head(members)[2].isArray THEN <<>>
    ELSE FieldsOfBlock(Head(members)[1], Head(members)[2]) \o ForEachFields(Tail(members))

\* a start message: the template is filled once, and nothing is sent
CachedStartFrame(blocks) ==
    /\ open
    /\ tick # "micro"
    /\ nStarts < MaxStarts /\ FramesSoFar < frameBudget.frames
    /\ nStarts' = nStarts + 1
    /\ LET pushed == IF Len(template) = 0 /\ blocks.present
                     THEN ForEachFields(blocks.members)
                     ELSE <<>>
           names == {pushed[i].field_name : i \in DOMAIN pushed}
       IN  /\ template' = template \o pushed
           /\ heap' = [heap EXCEPT ![currAttributes] = Spread(@, [k \in names |-> VEmpty])]
    /\ lastSent' = <<>>
    /\ UNCHANGED <<nchunks, audioBuffer, transcript, currAttributes, webmHeader,
                   currTranscriptSize, jobs, stops, open, tick, nBinary, frameBudget, uncaught,
                   pureVars, cacheVars>>

\* the job of the cache-enabled server also holds captureBuffer for its key
\* and for the write-back, and the text it gave to processCachedTranscription
CachedJob(captureBuffer) ==
    [pc |-> "queued", buf |-> captureBuffer, attempt |-> 0, text |-> <<>>,
     capture |-> captureBuffer, raw |-> <<>>]

DoneServed == [pc |-> "done", text |-> <<>>, raw |-> <<>>]

\* the job's function returns
CachedJobEnds(j, sent) ==
    \E js \in {QueueNext(jobs, j)} :
      \E st \in {WakeStops(stops, js)} : Step(js, st, sent)

\* who called processCachedTranscription: a job, the handler of a binary
\* frame, or that handler after its await
ByJob(j) == [kind |-> "job", id |-> j]
ByFrame == [kind |-> "frame", id |-> Len(served) + 1]
ByServed(h) == [kind |-> "served", id |-> h]

\* the caller sends the update and returns
CallerReturns(who, msg) ==
    IF who.kind = "job"
    THEN /\ CachedJobEnds(who.id, Sent("job", who.id, "none", msg))
         /\ UNCHANGED served
    ELSE IF who.kind = "frame"
    THEN /\ served' = Append(served, DoneServed)
         /\ lastSent' = Sent("cached", who.id, "none", msg)
         /\ tick' = AfterFrame(jobs, stops)
         /\ UNCHANGED jobs
    ELSE /\ served' = [served EXCEPT ![who.id] = DoneServed]
         /\ Step(jobs, stops, Sent("cached", who.id, "none", msg))

\* the caller waits for the extraction completion
CallerAwaits(who, window, transcription) ==
    IF who.kind = "job"
    THEN /\ Step([jobs EXCEPT ![who.id] = [AtAwait(@, "extract", window)
                                              EXCEPT !.raw = transcription]],
                 stops, <<>>)
         /\ UNCHANGED served
    ELSE /\ served' = Append(served, [pc |-> "extract", text |-> window,
                                      raw |-> transcription])
         /\ lastSent' = <<>>
         /\ tick' = AfterFrame(jobs, stops)
         /\ UNCHANGED jobs

\* processCachedTranscription after extractAttributesFromText has returned:
\* cacheTranscript, the merge, and the caller's send
Extracted(extracted, window, transcription, who) ==
    \E obj \in {FreshObj(currAttributes, stops)},
       merged \in {MergeExtracted(Attributes, extracted)} :
        /\ transcriptCache' =
               CacheSet(transcriptCache, createTranscriptKey(transcription), transcription)
        /\ currAttributes' = obj
        /\ heap' = Collect([heap EXCEPT ![obj] = merged], obj, stops)
        /\ CallerReturns(who, Update(window, merged))

\* processCachedTranscription up to its await, or to its end with the caller's
\* send when nothing is awaited
ProcessCached(transcription, who) ==
    \E key \in {createTranscriptKey(transcription)} :
      \E st \in {appendWithOverlap(transcript,
                                   IF CacheHit(transcriptCache, key)
                                   THEN transcriptCache[key]
                                   ELSE transcription)} :
        \E currTranscript \in {SliceLast(st[1], currTranscriptSize + st[2])} :
          /\ transcript' = st[1]
          /\ currTranscriptSize' = st[2]
          /\ IF CacheHit(transcriptCache, key)
             THEN /\ CallerReturns(who, Update(currTranscript, Attributes))
                  /\ UNCHANGED <<currAttributes, heap, transcriptCache>>
             ELSE IF ExtractsWithoutCall(currTranscript, template)
             THEN Extracted(EmptyObject, currTranscript, transcription, who)
             ELSE /\ CallerAwaits(who, currTranscript, transcription)
                  /\ UNCHANGED <<currAttributes, heap, transcriptCache>>

\* a binary frame: as before up to the snapshot, then the audio cache decides
\* between the handler itself and a job on the queue
CachedBinaryFrame(chunk) ==
    /\ open
    /\ tick # "micro"
    /\ nBinary < frameBudget.binary /\ FramesSoFar < frameBudget.frames
    /\ nBinary' = nBinary + 1
    /\ UNCHANGED <<stops, open, nStarts, frameBudget, uncaught, pureVars, template>>
    /\ IF Overflows(audioBuffer, chunk)
       THEN /\ lastSent' = Sent("binary", 0, "none", ErrorOnly("audio-buffer-overflow"))
            /\ UNCHANGED <<stateVars, jobs, tick, cacheVars>>
       ELSE \E header \in {IF ~webmHeader.has /\ BufferIsWebM(chunk)
                           THEN [has |-> TRUE, buf |-> chunk]
                           ELSE webmHeader},
               buffer \in {BufConcat(audioBuffer, chunk)} :
            /\ webmHeader' = header
            /\ IF nchunks + 1 < MIN_CHUNK_NUM
               THEN /\ audioBuffer' = buffer
                    /\ nchunks' = nchunks + 1
                    /\ lastSent' = <<>>
                    /\ tick' = AfterFrame(jobs, stops)
                    /\ UNCHANGED <<transcript, currAttributes, currTranscriptSize, heap,
                                   jobs, cacheVars>>
               ELSE /\ audioBuffer' = <<>>
                    /\ nchunks' = 0
                    /\ \E captureBuffer \in {Repaired(buffer, header)} :
                       \E audioCacheKey \in {createAudioKey(captureBuffer)} :
                         IF ~hasVoiceActivity(buffer)
                            \/ (CacheHit(audioCache, audioCacheKey)
                                /\ WordCount(audioCache[audioCacheKey]) < MIN_WORD_COUNT)
                         THEN /\ lastSent' = <<>>
                              /\ tick' = AfterFrame(jobs, stops)
                              /\ UNCHANGED <<transcript, currAttributes, currTranscriptSize,
                                             heap, jobs, cacheVars>>
                         ELSE IF CacheHit(audioCache, audioCacheKey)
                         THEN /\ ProcessCached(audioCache[audioCacheKey], ByFrame)
                              /\ UNCHANGED audioCache
                         ELSE /\ jobs' = QueuePut(jobs, CachedJob(captureBuffer))
                              /\ lastSent' = <<>>
                              /\ tick' = AfterFrame(jobs', stops)
                              /\ UNCHANGED <<transcript, currAttributes, currTranscriptSize,
                                             heap, cacheVars>>

\* reviseTranscription has returned: cacheAudio, the word count, and either
\* the write-back of captureBuffer or processCachedTranscription
CachedJobRevised(j, revisedTranscript) ==
    /\ audioCache' =
           CacheSet(audioCache, createAudioKey(jobs[j].capture), revisedTranscript)
    /\ UNCHANGED <<template, webmHeader>>
    /\ IF WordCount(revisedTranscript) < MIN_WORD_COUNT
       THEN /\ audioBuffer' = jobs[j].capture
            /\ nchunks' = 0
            /\ CachedJobEnds(j, <<>>)
            /\ UNCHANGED <<transcript, currAttributes, currTranscriptSize, heap,
                           transcriptCache, served>>
       ELSE /\ ProcessCached(revisedTranscript, ByJob(j))
            /\ UNCHANGED <<nchunks, audioBuffer>>

\* runWhisperOnBuffer has returned
CachedJobRaw(j, transcription) ==
    IF RevisesWithoutCall(transcription)
    THEN CachedJobRevised(j, transcription)
    ELSE /\ Step([jobs EXCEPT ![j] = AtAwait(@, "revise", transcription)], stops, <<>>)
         /\ UNCHANGED <<stateVars, cacheVars>>

\* runWhisperOnBuffer returned "" without a request
CachedJobRawReady(j) ==
    /\ jobs[j].pc = "rawReady"
    /\ CachedJobRaw(j, <<>>)

\* a request to the speech-to-text service ends
CachedJobWhisperResponse(j, outcome) ==
    /\ tick = "none"
    /\ jobs[j].pc = "whisper"
    /\ IF outcome.kind = "ok" THEN CachedJobRaw(j, outcome.val)
       ELSE IF WhisperGivesUp(outcome, jobs[j].attempt)
       THEN JobFails(j, "whisper") /\ UNCHANGED cacheVars
       ELSE /\ Step([jobs EXCEPT ![j].attempt = @ + 1], stops, <<>>)
            /\ UNCHANGED <<stateVars, cacheVars>>

\* the correction completion ends
CachedJobReviseResponse(j, outcome) ==
    /\ tick = "none"
    /\ jobs[j].pc = "revise"
    /\ IF outcome.kind = "throws" THEN JobFails(j, "revise") /\ UNCHANGED cacheVars
       ELSE \E revisedTranscript \in {ReviseResult(jobs[j].text, outcome)} :
                CachedJobRevised(j, revisedTranscript)

\* the extraction completion of a job ends
CachedJobExtractResponse(j, outcome) ==
    /\ tick = "none"
    /\ jobs[j].pc = "extract"
    /\ IF outcome.kind = "throws" THEN JobFails(j, "extract") /\ UNCHANGED cacheVars
       ELSE /\ Extracted(ExtractResult(outcome), jobs[j].text, jobs[j].raw, ByJob(j))
            /\ UNCHANGED <<nchunks, audioBuffer, transcript, template, webmHeader,
                           currTranscriptSize, audioCache>>

\* the extraction completion of a handler that serves a segment from the audio
\* cache ends; an error leaves the handler, which has no catch block around it
ServedExtractResponse(h, outcome) ==
    /\ tick = "none"
    /\ served[h].pc = "extract"
    /\ UNCHANGED <<nchunks, audioBuffer, transcript, template, webmHeader,
                   currTranscriptSize, audioCache>>
    /\ IF outcome.kind = "throws"
       THEN /\ served' = [served EXCEPT ![h] = DoneServed]
            /\ Step(jobs, stops, <<>>)
            /\ UNCHANGED <<currAttributes, heap, transcriptCache>>
       ELSE Extracted(ExtractResult(outcome), served[h].text, served[h].raw, ByServed(h))

\* reviseTranscription of the residual has returned: cacheAudio, the stitch,
\* the final sweep
CachedStopRevised(s, finalTranscription, remainingData) ==
    /\ audioCache' =
           CacheSet(audioCache, createAudioKey(remainingData), finalTranscription)
    /\ UNCHANGED <<transcriptCache, served>>
    /\ \E st \in {appendWithOverlap(transcript, finalTranscription)} :
           StopSweep(s, st[1], st[2])

\* the raw text of the residual is known, from the audio cache or from the
\* speech-to-text service
CachedStopRaw(s, rawFinalTranscription, remainingData) ==
    IF WordCount(rawFinalTranscription) < MIN_WORD_COUNT
    THEN StopSweep(s, transcript, currTranscriptSize) /\ UNCHANGED cacheVars
    ELSE IF RevisesWithoutCall(rawFinalTranscription)
    THEN CachedStopRevised(s, rawFinalTranscription, remainingData)
    ELSE /\ Step(jobs, [stops EXCEPT ![s] =
                     [@ EXCEPT !.pc = "revise", !.attempt = 0, !.buf = remainingData,
                               !.text = rawFinalTranscription]], <<>>)
         /\ UNCHANGED <<transcript, currAttributes, template, currTranscriptSize, heap,
                        cacheVars>>

\* the handler goes on after the drain; only the buffer is cleared
CachedStopResume(s) ==
    /\ stops[s].pc \in {"drained", "resume"}
    /\ UNCHANGED <<nchunks, webmHeader>>
    /\ IF BufLen(audioBuffer) = 0
       THEN /\ StopResponds(s, transcript, currTranscriptSize, currAttributes, heap,
                            "none", Final(transcript, Attributes))
            /\ UNCHANGED <<audioBuffer, cacheVars>>
       ELSE \E remainingData \in {Repaired(audioBuffer, webmHeader)} :
                /\ audioBuffer' = <<>>
                /\ IF ~hasVoiceActivity(remainingData)
                   THEN StopSweep(s, transcript, currTranscriptSize) /\ UNCHANGED cacheVars
                   ELSE IF CacheHit(audioCache, createAudioKey(remainingData))
                   THEN CachedStopRaw(s, audioCache[createAudioKey(remainingData)],
                                      remainingData)
                   ELSE /\ Step(jobs, [stops EXCEPT ![s] =
                                    [@ EXCEPT !.pc = "whisper", !.attempt = 1,
                                              !.buf = remainingData]], <<>>)
                        /\ UNCHANGED <<transcript, currAttributes, template,
                                       currTranscriptSize, heap, cacheVars>>

\* a request of the residual transcription ends
CachedStopWhisperResponse(s, outcome) ==
    /\ tick = "none"
    /\ stops[s].pc = "whisper"
    /\ UNCHANGED <<nchunks, audioBuffer, webmHeader>>
    /\ IF outcome.kind = "ok" THEN CachedStopRaw(s, outcome.val, stops[s].buf)
       ELSE IF WhisperGivesUp(outcome, stops[s].attempt)
       THEN StopFails(s, "whisper") /\ UNCHANGED cacheVars
       ELSE /\ Step(jobs, [stops EXCEPT ![s].attempt = @ + 1], <<>>)
            /\ UNCHANGED <<transcript, currAttributes, template, currTranscriptSize, heap,
                           cacheVars>>

\* the correction completion of the residual ends
CachedStopReviseResponse(s, outcome) ==
    /\ tick = "none"
    /\ stops[s].pc = "revise"
    /\ UNCHANGED <<nchunks, audioBuffer, webmHeader>>
    /\ IF outcome.kind = "throws" THEN StopFails(s, "revise") /\ UNCHANGED cacheVars
       ELSE \E finalTranscription \in {ReviseResult(stops[s].text, outcome)} :
                CachedStopRevised(s, finalTranscription, stops[s].buf)

\* an entry of the audio cache goes away between two events
AudioCacheExpires(key) ==
    /\ tick = "none"
    /\ key \in DOMAIN audioCache
    /\ audioCache' = CacheDrop(audioCache, key)
    /\ UNCHANGED <<stateVars, jobs, stops, open, lastSent, tick, nBinary, nStarts,
                   frameBudget, uncaught, transcriptCache, served, pureVars>>

\* an entry of the transcript cache goes away between two events
TranscriptCacheExpires(key) ==
    /\ tick = "none"
    /\ key \in DOMAIN transcriptCache
    /\ transcriptCache' = CacheDrop(transcriptCache, key)
    /\ UNCHANGED <<stateVars, jobs, stops, open, lastSent, tick, nBinary, nStarts,
                   frameBudget, uncaught, audioCache, served, pureVars>>

CachedInit == PureIdle /\ Connected(MaxCachedFrames)

CachedNext ==
    \/ BadJsonFrame
    \/ \E blocks \in StartPayloads : CachedStartFrame(blocks)
    \/ \E chunk \in Chunks : CachedBinaryFrame(chunk)
    \/ StopFrame
    \/ Close
    \/ \E j \in DOMAIN jobs : CachedJobRawReady(j)
    \/ \E j \in DOMAIN jobs, outcome \in WhisperOutcomes : CachedJobWhisperResponse(j, outcome)
    \/ \E j \in DOMAIN jobs, outcome \in ReviseOutcomes : CachedJobReviseResponse(j, outcome)
    \/ \E j \in DOMAIN jobs, outcome \in ExtractOutcomes : CachedJobExtractResponse(j, outcome)
    \/ \E h \in DOMAIN served, outcome \in ExtractOutcomes : ServedExtractResponse(h, outcome)
    \/ \E s \in DOMAIN stops : CachedStopResume(s)
    \/ \E s \in DOMAIN stops, outcome \in WhisperOutcomes : CachedStopWhisperResponse(s, outcome)
    \/ \E s \in DOMAIN stops, outcome \in ReviseOutcomes : CachedStopReviseResponse(s, outcome)
    \/ \E s \in DOMAIN stops, outcome \in FinalOutcomes : StopSweepResponse(s, outcome)
    \/ \E key \in DOMAIN audioCache : AudioCacheExpires(key)
    \/ \E key \in DOMAIN transcriptCache : TranscriptCacheExpires(key)

SpecCached == CachedInit /\ [][CachedNext]_vars

(***************************************************************************)
(* The caching server with a client that names a template and then sends   *)
(* the same loud audio over and over, and services that answer every       *)
(* request.                                                                *)
(***************************************************************************)
CachedBusyInit == PureIdle /\ Session(MaxBusyFrames + 1, MaxBusyFrames)

CachedBusyNext ==
    \/ CachedStartFrame(BlocksId)
    \/ CachedBinaryFrame(VOICE)
    \/ \E j \in DOMAIN jobs : CachedJobWhisperResponse(j, Ok(TxtLong))
    \/ \E j \in DOMAIN jobs : CachedJobReviseResponse(j, Ok(TxtFixed))
    \/ \E j \in DOMAIN jobs, outcome \in {o \in ExtractOutcomes : o.kind = "ok"} :
         CachedJobExtractResponse(j, outcome)
    \/ \E h \in DOMAIN served, outcome \in {o \in ExtractOutcomes : o.kind = "ok"} :
         ServedExtractResponse(h, outcome)

SpecCachedBusy == CachedBusyInit /\ [][CachedBusyNext]_vars

(***************************************************************************)
(* The caching server with a client that names a template, sends loud      *)
(* audio and ends with one stop message, and services that answer every    *)
(* request.                                                                *)
(***************************************************************************)
CachedStopInit == PureIdle /\ Session(MaxRoundFrames, MaxRoundBinary)

CachedStopNext ==
    \/ stops = <<>> /\ CachedStartFrame(BlocksId)
    \/ stops = <<>> /\ CachedBinaryFrame(VOICE)
    \/ stops = <<>> /\ StopFrame
    \/ \E j \in DOMAIN jobs : CachedJobWhisperResponse(j, Ok(TxtLong))
    \/ \E j \in DOMAIN jobs : CachedJobReviseResponse(j, Ok(TxtFixed))
    \/ \E j \in DOMAIN jobs, outcome \in {o \in ExtractOutcomes : o.kind = "ok"} :
         CachedJobExtractResponse(j, outcome)
    \/ \E h \in DOMAIN served, outcome \in {o \in ExtractOutcomes : o.kind = "ok"} :
         ServedExtractResponse(h, outcome)
    \/ \E s \in DOMAIN stops : CachedStopResume(s)
    \/ \E s \in DOMAIN stops : CachedStopWhisperResponse(s, Ok(TxtLong))
    \/ \E s \in DOMAIN stops : CachedStopReviseResponse(s, Ok(TxtFixed))
    \/ \E s \in DOMAIN stops, outcome \in {o \in FinalOutcomes : o.kind = "ok"} :
         StopSweepResponse(s, outcome)

SpecCachedStop == CachedStopInit /\ [][CachedStopNext]_vars

(***************************************************************************)
(* The three clients of the language model applied to short and long texts,*)
(* every small attribute map and every way a completion can end, and the   *)
(* key of the audio cache applied to pairs of segments of one session.     *)
(***************************************************************************)
AttributeMaps ==
    UNION {[fields -> {VEmpty, VBlank, VNA, VAnn, VBob}] : fields \in SUBSET {"name", "dob"}}

Malformations == {Fails("empty"), Fails("unparseable"), Fails("nokey"), Fails("throws")}

\* segments as the binary branch captures them in a session whose first chunk
\* was HDR: the first one opens with it, the later ones have it prepended
Segments ==
    {BufConcat(HDR, VOICE),
     Repaired(BufConcat(VOICE, VOICE), [has |-> TRUE, buf |-> HDR]),
     Repaired(BufConcat(VOICE, HDR), [has |-> TRUE, buf |-> HDR]),
     Repaired(BufConcat(VOICE, VOICE), NoHeader)}

ParseCalls ==
    [fn : {"revise"}, text : {TxtShort, TxtLong},
     completion : {Ok(TxtFixed), Ok(VBlank), Ok(VEmpty)} \cup Malformations]
    \cup [fn : {"extract"}, text : {TxtShort, TxtLong},
          tmpl : {<<>>, <<[block_name |-> "id", field_name |-> "name"]>>},
          completion : {Ok(r) : r \in AttributeMaps} \cup Malformations]
    \cup [fn : {"final"}, text : {TxtShort, TxtLong}, candidates : AttributeMaps,
          completion : {Ok(r) : r \in AttributeMaps} \cup Malformations]
    \cup [fn : {"key"}, one : Segments, other : Segments]

ParseInit ==
    /\ base = <<>>
    /\ addition = <<>>
    /\ stitched = <<>>
    /\ data = <<>>
    /\ integrity = "none"
    /\ asked \in ParseCalls
    /\ answer = <<>>
    /\ transcriptionCache = <<>>
    /\ clock = 0
    /\ SessionInit

CallRevise ==
    /\ asked.fn = "revise" /\ answer = <<>>
    /\ answer' = <<reviseTranscription(asked.text, asked.completion)>>
    /\ UNCHANGED <<base, addition, stitched, data, integrity, asked, mapVars, sessionVars>>

CallExtract ==
    /\ asked.fn = "extract" /\ answer = <<>>
    /\ answer' = <<extractAttributesFromText(asked.text, asked.tmpl, asked.completion)>>
    /\ UNCHANGED <<base, addition, stitched, data, integrity, asked, mapVars, sessionVars>>

CallFinal ==
    /\ asked.fn = "final" /\ answer = <<>>
    /\ answer' = <<parseFinalAttributes(asked.text, asked.candidates, asked.completion)>>
    /\ UNCHANGED <<base, addition, stitched, data, integrity, asked, mapVars, sessionVars>>

\* createAudioKey for two segments
CallKey ==
    /\ asked.fn = "key" /\ answer = <<>>
    /\ answer' = <<createAudioKey(asked.one), createAudioKey(asked.other)>>
    /\ UNCHANGED <<base, addition, stitched, data, integrity, asked, mapVars, sessionVars>>

ParseNext == CallRevise \/ CallExtract \/ CallFinal \/ CallKey

SpecParse == ParseInit /\ [][ParseNext]_vars

(***************************************************************************)
(* The server with the Map-based cache: createCacheKey aside, its cache is *)
(* getCachedTranscription and cacheTranscription over one module-level Map *)
(* that all connections share.  Both run to their end without an await, so *)
(* the calls of the connections come one after the other.                  *)
(***************************************************************************)
MAP_CACHE_LIMIT == 100
TRANSCRIPTION_CACHE_TTL == 60000
\* the clock moves by half the TTL between two events
MaxTicks == 4
\* the keys the connections come up with
MaxMapKeys == 103

MapHas(cache, key) == \E i \in DOMAIN cache : cache[i].key = key
MapGet(cache, key) == cache[CHOOSE i \in DOMAIN cache : cache[i].key = key]
MapDelete(cache, key) == SelectSeq(cache, LAMBDA e : e.key # key)
\* Map.set keeps the place of a key that is there and appends a new one
MapSet(cache, entry) ==
    IF MapHas(cache, entry.key)
    THEN [i \in DOMAIN cache |-> IF cache[i].key = entry.key THEN entry ELSE cache[i]]
    ELSE Append(cache, entry)

\* a slip: an entry is still served at the very age of the TTL
FreshAtTTL(entry, now) == now - entry.timestamp <= TRANSCRIPTION_CACHE_TTL

\* "Date.now() - cached.timestamp < TRANSCRIPTION_CACHE_TTL"
Fresh(entry, now) == now - entry.timestamp < TRANSCRIPTION_CACHE_TTL

\* "if (transcriptionCache.size > 100)"
Evicts(cache) == Len(cache) > MAP_CACHE_LIMIT

cacheTranscription(cache, cacheKey, transcription, now) ==
    MapSet(IF Evicts(cache) THEN MapDelete(cache, cache[1].key) ELSE cache,
           [key |-> cacheKey, transcription |-> transcription, timestamp |-> now])

\* a connection stores a transcription
CacheWrite(cacheKey, transcription) ==
    /\ transcriptionCache' =
           cacheTranscription(transcriptionCache, cacheKey, transcription, clock)
    /\ UNCHANGED <<base, addition, stitched, data, integrity, asked, answer, clock,
                   sessionVars>>

\* getCachedTranscription(cacheKey): the transcription of an entry that is
\* there and fresh; an entry that is there and not fresh is deleted
CacheLookup(cacheKey) ==
    /\ asked' = [fn |-> "get", key |-> cacheKey]
    /\ IF MapHas(transcriptionCache, cacheKey)
       THEN \E cached \in {MapGet(transcriptionCache, cacheKey)} :
              IF Fresh(cached, clock)
              THEN /\ answer' = <<Ok(cached.transcription)>>
                   /\ UNCHANGED transcriptionCache
              ELSE /\ answer' = <<Fails("null")>>
                   /\ transcriptionCache' = MapDelete(transcriptionCache, cacheKey)
       ELSE /\ answer' = <<Fails("null")>>
            /\ UNCHANGED transcriptionCache
    /\ UNCHANGED <<base, addition, stitched, data, integrity, clock, sessionVars>>

\* time passes
ClockAdvances ==
    /\ clock < MaxTicks * (TRANSCRIPTION_CACHE_TTL \div 2)
    /\ clock' = clock + TRANSCRIPTION_CACHE_TTL \div 2
    /\ UNCHANGED <<base, addition, stitched, data, integrity, asked, answer,
                   transcriptionCache, sessionVars>>

MapInit == PureIdle /\ SessionInit

\* connections that store one segment after the other, all within the TTL:
\* a key that was never used, or that of the newest entry
FreshKey(cache) ==
    IF cache = <<>> THEN 1
    ELSE 1 + CHOOSE k \in {cache[i].key : i \in DOMAIN cache} :
                 \A i \in DOMAIN cache : cache[i].key <= k

KeysAtHand(cache) ==
    {k \in {FreshKey(cache)} : k <= MaxMapKeys}
    \cup (IF cache = <<>> THEN {} ELSE {cache[Len(cache)].key})

MapFillNext ==
    \/ \E cacheKey \in KeysAtHand(transcriptionCache) : CacheWrite(cacheKey, TxtShort)
    \/ \E cacheKey \in KeysAtHand(transcriptionCache) : CacheLookup(cacheKey)

SpecMapFill == MapInit /\ [][MapFillNext]_vars

\* connections that store and look up two segments again and again while
\* time passes
MapAgeNext ==
    \/ \E cacheKey \in 1..2, transcription \in {TxtShort, TxtLong} :
         CacheWrite(cacheKey, transcription)
    \/ \E cacheKey \in 1..2 : CacheLookup(cacheKey)
    \/ ClockAdvances

SpecMapAge == MapInit /\ [][MapAgeNext]_vars


(***************************************************************************)
(* C1: appendWithOverlap(base, addition) is <<base + addition[k:],         *)
(* len(addition) - k>> for the largest k in 0..min(len(base),              *)
(* len(addition)) whose prefix of addition is a suffix of base; an empty   *)
(* addition returns <<base, 0>>, and base is a prefix of the merged text.  *)
(***************************************************************************)
Overlaps(b, a) ==
    {k \in 0..Min(Len(b), Len(a)) :
        SubSeq(b, Len(b) - k + 1, Len(b)) = SubSeq(a, 1, k)}

MaxOverlap(b, a) ==
    CHOOSE k \in Overlaps(b, a) : \A m \in Overlaps(b, a) : m <= k

IsPrefix(p, s) == Len(p) <= Len(s) /\ SubSeq(s, 1, Len(p)) = p

C1_StitchLongestOverlap ==
    stitched # <<>> =>
        LET k == MaxOverlap(base, addition)
        IN  /\ stitched[1] = base \o SubSeq(addition, k + 1, Len(addition))
            /\ stitched[2] = Len(addition) - k
            /\ (addition = <<>> => stitched = <<base, 0>>)
            /\ IsPrefix(base, stitched[1])

\* a stitch with two overlaps (1 and 2) has been computed
C1_Witness ==
    /\ stitched # <<>>
    /\ Cardinality(Overlaps(base, addition)) >= 3
    /\ stitched[2] < Len(addition)

(***************************************************************************)
(* C2: checkWebMIntegrity(data) is true iff data has at least 4 bytes and  *)
(* its first four are 1A 45 DF A3; it is false for every shorter input,    *)
(* and the input is left as it was.                                        *)
(***************************************************************************)
MagicBytes == <<26, 69, 223, 163>>

C2_ValidatorIffMagic ==
    integrity # "none" =>
        /\ (integrity = "true") <=> (Len(data) >= 4 /\ SubSeq(data, 1, 4) = MagicBytes)
        /\ (Len(data) < 4 => integrity = "false")

\* the validator accepted a block that is longer than the magic itself
C2_Witness ==
    /\ integrity = "true"
    /\ Len(data) > 4


\* what the last step sent, by sender
SentBy(from) == lastSent # <<>> /\ lastSent[1].from = from
SentMsg == lastSent[1].msg
HasError(msg, code) == "error" \in DOMAIN msg /\ msg.error = code

\* C3: a binary frame whose length added to the buffer's exceeds
\* MAX_AUDIO_BUFFER_SIZE is dropped: audioBuffer, nchunks and webmHeader are
\* unchanged, exactly one audio-buffer-overflow error is sent, and no job is
\* scheduled.
C3_OverflowFrameDropped ==
    [][\A chunk \in Chunks :
         (BinaryFrame(chunk)
            /\ BufLen(audioBuffer) + BufLen(chunk) > MAX_AUDIO_BUFFER_SIZE)
         => /\ audioBuffer' = audioBuffer
            /\ nchunks' = nchunks
            /\ webmHeader' = webmHeader
            /\ jobs' = jobs
            /\ Len(lastSent') = 1
            /\ lastSent'[1].msg = [error |-> "audio-buffer-overflow"]]_vars

\* a frame has just been dropped with audio waiting in the buffer
C3_Witness ==
    /\ SentBy("binary")
    /\ HasError(SentMsg, "audio-buffer-overflow")
    /\ BufLen(audioBuffer) > 0
    /\ nchunks = 1

\* the templates a start message of the model can leave
FirstTemplates ==
    { << >>,
      << [block_name |-> "id", field_name |-> "name"],
         [block_name |-> "id", field_name |-> "dob"] >>,
      << [block_name |-> "a", field_name |-> "name"],
         [block_name |-> "c", field_name |-> "name"],
         [block_name |-> "c", field_name |-> "age"] >> }

\* C5: once the template is non-empty, no later start message changes the
\* template or the attributes; the template holds exactly the fields of the
\* start that populated it.
C5_LaterStartIsNoOp ==
    /\ [](template \in FirstTemplates)
    /\ [][(nStarts' = nStarts + 1 /\ Len(template) > 0)
            => (template' = template /\ Attributes' = Attributes)]_vars

\* a start has just been handled although an earlier one had populated the
\* template and a job had already extracted a value for one of its fields
C5_Witness ==
    /\ SentBy("start")
    /\ nStarts = 2
    /\ Len(template) = 2
    /\ "name" \in DOMAIN Attributes
    /\ Attributes["name"] = VAnn

\* the FieldDefs a start message lists, block by block
Listed(blocks) ==
    IF blocks = BlocksId
    THEN << [block_name |-> "id", field_name |-> "name"],
            [block_name |-> "id", field_name |-> "dob"] >>
    ELSE IF blocks = BlocksMixed
    THEN << [block_name |-> "a", field_name |-> "name"],
            [block_name |-> "c", field_name |-> "name"],
            [block_name |-> "c", field_name |-> "age"] >>
    ELSE << >>

\* C6: a start message received while the template is empty appends one
\* FieldDef per listed field, block by block and in order, sets the attribute
\* of every listed field to the empty string, and sends exactly one started
\* response whose template_size is the resulting template length.
C6_StartPopulates ==
    [][\A blocks \in StartPayloads :
         (StartFrame(blocks) /\ Len(template) = 0)
         => /\ template' = Listed(blocks)
            /\ \A i \in DOMAIN Listed(blocks) :
                 /\ Listed(blocks)[i].field_name \in DOMAIN Attributes'
                 /\ Attributes'[Listed(blocks)[i].field_name] = <<>>
            /\ Len(lastSent') = 1
            /\ lastSent'[1].msg =
                 [action |-> "started", template_size |-> Len(template')]]_vars

\* the first populated start has just been acknowledged with size 3
C6_Witness ==
    /\ SentBy("start")
    /\ SentMsg = [action |-> "started", template_size |-> 3]
    /\ Len(template) = 3
    /\ DOMAIN Attributes = {"name", "age"}

\* C7: the final response to a stop is computed and sent only after every
\* job enqueued before the stop was received has completed; none of them is
\* still waiting or running once the stop handler has passed its drain.
C7_StopAfterEarlierJobs ==
    \A s \in DOMAIN stops :
        stops[s].pc # "drain"
        => \A j \in 1..stops[s].arrived : jobs[j].pc = "done"

\* a stop that found two jobs running has sent its final response
C7_Witness ==
    \E s \in DOMAIN stops :
        /\ stops[s].pc = "done"
        /\ stops[s].waited
        /\ stops[s].arrived = 2
        /\ SentBy("stop")
        /\ lastSent[1].id = s

\* C8: every stop received on an open connection eventually gets exactly one
\* response, as long as the connection stays open, and every response to a
\* stop carries corrected_audio and attributes.
C8_StopAnswered ==
    /\ [](\A s \in DOMAIN stops : stops[s].sent <= 1)
    /\ [](SentBy("stop") => {"corrected_audio", "attributes"} \subseteq DOMAIN SentMsg)
    /\ \A s \in 1..MaxStops :
         (Len(stops) >= s)
            ~> (~open \/ (Len(stops) >= s /\ stops[s].pc = "done" /\ stops[s].sent = 1))

\* the second stop of an open connection has been answered after its final
\* phase failed
C8_Witness ==
    /\ open
    /\ Len(stops) = 2
    /\ stops[2].sent = 1
    /\ SentBy("stop")
    /\ lastSent[1].id = 2
    /\ HasError(SentMsg, "final-processing-failed")

\* C9: after a start that populated the template, every field name of the
\* template is a key of the attributes, and every final response lists every
\* template field.
C9_TemplateFieldsAreKeys ==
    /\ \A i \in DOMAIN template : template[i].field_name \in DOMAIN Attributes
    /\ SentBy("stop")
       => \A i \in DOMAIN template : template[i].field_name \in DOMAIN SentMsg.attributes

\* C10: if a step of a stop's final phase fails (residual transcription,
\* correction, or the external call of the final sweep), the response to the
\* stop has error = final-processing-failed beside corrected_audio and
\* attributes.
C10_FinalFailureReported ==
    (SentBy("stop") /\ lastSent[1].note # "none")
    => /\ {"corrected_audio", "attributes"} \subseteq DOMAIN SentMsg
       /\ HasError(SentMsg, "final-processing-failed")

(***************************************************************************)
(* C4: state.audioBuffer never holds more than MAX_AUDIO_BUFFER_SIZE       *)
(* bytes.                                                                  *)
(***************************************************************************)
C4_BufferWithinLimit == BufLen(audioBuffer) <= MAX_AUDIO_BUFFER_SIZE

(***************************************************************************)
(* C11: every response to a stop comes after that stop has called          *)
(* parseFinalAttributes, whatever the residual buffer held.                *)
(***************************************************************************)
C11_StopResponseAfterSweep ==
    \A s \in DOMAIN stops : stops[s].sent > 0 => stops[s].swept

(***************************************************************************)
(* C17: in every step of a session the transcript before the step is a     *)
(* prefix of the transcript after it.                                      *)
(***************************************************************************)
C17_TranscriptOnlyGrows == [][IsPrefix(transcript, transcript')]_vars

\* two segments have been stitched, the second one over an overlap
C17_Witness ==
    /\ IsPrefix(TxtLong, transcript)
    /\ Len(transcript) > Len(TxtLong)
    /\ Len(transcript) < Len(TxtLong) + Len(TxtFixed)

(***************************************************************************)
(* C18: no merge of attributes is lost: a field that holds a non-empty     *)
(* value keeps it in every step, unless the step writes another non-empty  *)
(* value for it; no step of a job or of a stop handler takes the field     *)
(* away or empties it.                                                     *)
(***************************************************************************)
C18_NoMergeLost ==
    [][nStarts' = nStarts
       => \A f \in DOMAIN Attributes :
            Attributes[f] # VEmpty
            => /\ f \in DOMAIN Attributes'
               /\ (Attributes'[f] = Attributes[f] \/ Accepted(Attributes'[f]))]_vars

(***************************************************************************)
(* C19: frames are handled one after another: when the handling of a frame *)
(* begins, no stop that arrived earlier is still waiting for the queue or  *)
(* for an external call of its final phase.                                *)
(***************************************************************************)
C19_FramesOneAfterAnother ==
    [][(nBinary' # nBinary \/ nStarts' # nStarts \/ Len(stops') # Len(stops))
       => \A s \in DOMAIN stops :
            stops[s].pc \notin {"drain", "whisper", "revise", "sweep"}]_vars

(***************************************************************************)
(* C16: when an await of job j throws (the transcription after its last    *)
(* attempt, the correction, or the extraction), the job sends exactly one  *)
(* message, the transcription-failed error, and returns: the queue goes on *)
(* with the next job, the connection stays open, and a job that has        *)
(* returned sends nothing more.                                            *)
(***************************************************************************)
JobThrows(j) ==
    \/ \E outcome \in WhisperOutcomes :
         /\ outcome.kind # "ok"
         /\ WhisperGivesUp(outcome, jobs[j].attempt)
         /\ JobWhisperResponse(j, outcome)
    \/ JobReviseResponse(j, Fails("throws"))
    \/ JobExtractResponse(j, Fails("throws"))

C16_JobFailureReported ==
    [][\A j \in DOMAIN jobs :
          /\ JobThrows(j)
              => /\ Len(lastSent') = 1
                 /\ lastSent'[1].from = "job" /\ lastSent'[1].id = j
                 /\ lastSent'[1].msg = ErrorOnly("transcription-failed")
                 /\ jobs' = QueueNext(jobs, j)
                 /\ open' = open
          /\ jobs[j].pc = "done"
              => /\ jobs'[j].pc = "done"
                 /\ ~(Len(lastSent') = 1 /\ lastSent'[1].from = "job"
                      /\ lastSent'[1].id = j)]_vars

\* the extraction of a job has thrown after its stitch, on an open connection
C16_Witness ==
    /\ SentBy("job")
    /\ lastSent[1].note = "extract"
    /\ SentMsg = ErrorOnly("transcription-failed")
    /\ transcript # <<>>
    /\ open

(***************************************************************************)
(* C20: a text frame that is not valid JSON is answered by exactly one     *)
(* bad-json error, and the step that sends a bad-json error changes no     *)
(* field of the session, nor the queue, nor a stop in progress: what       *)
(* follows is handled as if the frame had not come.                        *)
(***************************************************************************)
C20_BadJsonChangesNothing ==
    [][/\ BadJsonFrame
          => /\ Len(lastSent') = 1
             /\ lastSent'[1].msg = ErrorOnly("bad-json")
       /\ (lastSent' # <<>> /\ HasError(lastSent'[1].msg, "bad-json"))
          => /\ UNCHANGED <<template, audioBuffer, nchunks, transcript, webmHeader,
                            currTranscriptSize, jobs, stops, open>>
             /\ Attributes' = Attributes]_vars

\* a bad frame has been answered in the middle of a segment, after a start
C20_Witness ==
    /\ SentBy("text")
    /\ HasError(SentMsg, "bad-json")
    /\ nchunks > 0 /\ BufLen(audioBuffer) > 0
    /\ Len(template) > 0

(***************************************************************************)
(* C12: in the cache-enabled server two segments with identical audio      *)
(* bytes, cut within the cache TTL, cost one call of the speech-to-text    *)
(* service, however the first segment's job and the second cutover         *)
(* interleave; so no two jobs ever have a request for the same bytes in    *)
(* flight.                                                                 *)
(***************************************************************************)
C12_OneRequestPerAudio ==
    \A j1, j2 \in DOMAIN jobs :
        (j1 # j2 /\ jobs[j1].pc = "whisper" /\ jobs[j2].pc = "whisper")
        => jobs[j1].capture # jobs[j2].capture

(***************************************************************************)
(* C13: when the drain of a stop has resolved, none of the jobs enqueued   *)
(* before the stop is waiting or running, and attributes holds a value    *)
(* for every field for which one of these jobs extracted one (the job's    *)
(* value, or the value a later merge wrote in its place); and the text a   *)
(* job stitches is, from the stitch on, a contiguous part of the           *)
(* transcript.                                                             *)
(***************************************************************************)
Contains(text, part) ==
    \E i \in 0..(Len(text) - Len(part)) : SubSeq(text, i + 1, i + Len(part)) = part

Drained(s) == stops[s].pc \in {"drained", "resume"}

C13_DrainReflectsAllJobs ==
    /\ [](\A s \in DOMAIN stops :
            Drained(s)
            => \E earlier \in {1..stops[s].arrived} :
                 /\ (QueuePending(jobs) \cup QueueSize(jobs)) \cap earlier = {}
                 /\ \A j \in {k \in earlier : jobs[k].pc = "done"} :
                      \A f \in DOMAIN jobs[j].got :
                        f \in DOMAIN Attributes /\ Accepted(Attributes[f]))
    /\ [][\A j \in DOMAIN jobs, outcome \in ReviseOutcomes \ {Fails("throws")} :
            (/\ JobReviseResponse(j, outcome)
             /\ WordCount(ReviseResult(jobs[j].text, outcome)) >= MIN_WORD_COUNT)
            => Contains(transcript', ReviseResult(jobs[j].text, outcome))]_vars

C14_AtMostFourPipelines ==
    Cardinality(QueuePending(jobs))
        + Cardinality({h \in DOMAIN served : served[h].pc = "extract"})
      <= QUEUE_CONCURRENCY

(***************************************************************************)
(* C21: a start message whose blocks member is missing, or holds a member  *)
(* that is not a list of field names, is answered with the one error       *)
(* bad-start-payload and leaves the template and the attributes as they    *)
(* were.                                                                   *)
(***************************************************************************)
Malformed(blocks) ==
    \/ ~blocks.present
    \/ \E i \in DOMAIN blocks.members : ~blocks.members[i][2].isArray

C21_MalformedStartRejected ==
    [][\A blocks \in {b \in StartPayloads : Malformed(b)} :
         StartFrame(blocks)
         => /\ lastSent' = Sent("start", 0, "none", ErrorOnly("bad-start-payload"))
            /\ template' = template
            /\ Attributes' = Attributes]_vars

(***************************************************************************)
(* C22: whatever frames have arrived, binary ones or text frames holding   *)
(* any JSON value, no handler has ended with an uncaught exception.        *)
(***************************************************************************)
C22_NoUncaughtException == ~uncaught

(***************************************************************************)
(* C23: when the final sweep's request has been answered with a result R,  *)
(* parseFinalAttributes returns a map over the keys of the candidates C    *)
(* and of the accepted entries of R, which holds R[f] where R[f] is        *)
(* non-empty, not only whitespace and not "N/A", and C[f] elsewhere; no    *)
(* informative candidate value is blanked or replaced by the marker.       *)
(***************************************************************************)
Informative(value) ==
    value # <<>> /\ value # VNA /\ \E i \in DOMAIN value : value[i] # " "

C23_FinalMergePolicy ==
    (asked.fn = "final" /\ answer # <<>> /\ asked.completion.kind = "ok"
       /\ ~FinalWithoutCall(asked.text))
    => \E C \in {asked.candidates}, R \in {asked.completion.val}, M \in {answer[1].val} :
         /\ answer[1].kind = "ok"
         /\ DOMAIN M = DOMAIN C \cup {f \in DOMAIN R : Informative(R[f])}
         /\ \A f \in DOMAIN M :
              M[f] = IF f \in DOMAIN R /\ Informative(R[f]) THEN R[f] ELSE C[f]
         /\ \A f \in DOMAIN C : Informative(C[f]) => Informative(M[f])

\* Ann is kept where the sweep says "N/A", and a date of birth is added
C23_Witness ==
    /\ asked.fn = "final" /\ answer # <<>> /\ asked.text = TxtLong
    /\ asked.candidates = [name |-> VAnn]
    /\ asked.completion = Ok([name |-> VNA, dob |-> VBob])
    /\ answer[1] = Ok([name |-> VAnn, dob |-> VBob])

(***************************************************************************)
(* C24: for a completion without content, with content that does not       *)
(* parse, or without the expected key, reviseTranscription returns the raw *)
(* text, extractAttributesFromText the empty map and parseFinalAttributes  *)
(* the candidates; none of them raises.                                    *)
(***************************************************************************)
C24_MalformedResponseFallsBack ==
    (/\ answer # <<>>
     /\ asked.fn \in {"revise", "extract", "final"}
     /\ asked.completion.kind \in {"empty", "unparseable", "nokey"})
    => answer[1] = Ok(CASE asked.fn = "revise" -> asked.text
                        [] asked.fn = "extract" -> EmptyObject
                        [] asked.fn = "final" -> asked.candidates)

\* a long text whose correction came back without the key
C24_Witness ==
    /\ asked.fn = "revise" /\ asked.text = TxtLong
    /\ asked.completion = Fails("nokey")
    /\ answer = <<Ok(TxtLong)>>

(***************************************************************************)
(* C25: a call of runWhisperOnBuffer sends at most MAX_RETRIES requests;   *)
(* the first response that is ok ends the call with its text, and a        *)
(* failure of the last attempt ends it with an error for the caller.       *)
(***************************************************************************)
C25_BoundedAttempts ==
    /\ [](\A j \in DOMAIN jobs : jobs[j].attempt <= MAX_RETRIES)
    /\ [][\A j \in DOMAIN jobs, outcome \in BusyWhisperOutcomes :
            JobWhisperResponse(j, outcome)
            => /\ outcome.kind = "ok"
                  => /\ jobs'[j].pc # "whisper"
                     /\ jobs'[j].pc = "revise" => jobs'[j].text = outcome.val
               /\ (outcome.kind # "ok" /\ jobs[j].attempt = MAX_RETRIES)
                  => /\ jobs'[j].pc = "done"
                     /\ lastSent' = Sent("job", j, "whisper",
                                          ErrorOnly("transcription-failed"))]_vars

\* the second request of a job has failed, and the job has reported it
C25_Witness ==
    /\ SentBy("job") /\ lastSent[1].note = "whisper"
    /\ HasError(SentMsg, "transcription-failed")
    /\ \E j \in DOMAIN jobs : jobs[j].pc = "whisper" /\ jobs[j].attempt = MAX_RETRIES

(***************************************************************************)
(* C26: a 4xx response ends the call of runWhisperOnBuffer with an error   *)
(* at once; any other failure is followed by another request while fewer   *)
(* than MAX_RETRIES have been sent.                                        *)
(***************************************************************************)
C26_ClientErrorsNotRetried ==
    [][\A j \in DOMAIN jobs, outcome \in {o \in BusyWhisperOutcomes : o.kind # "ok"} :
         JobWhisperResponse(j, outcome)
         => IF outcome.kind = "status" /\ outcome.status \in 400..499
            THEN jobs'[j].pc = "done"
            ELSE jobs[j].attempt < MAX_RETRIES
                 => jobs'[j].pc = "whisper" /\ jobs'[j].attempt = jobs[j].attempt + 1]_vars

(***************************************************************************)
(* C27: when the correction request of a job fails and fewer requests than *)
(* the attempt bound have been sent for this call, another request follows *)
(* and the job does not see the failure yet.                               *)
(***************************************************************************)
\* reviseTranscription sends its one request before its only await
RevisionRequests(j) == IF jobs[j].pc = "revise" THEN 1 ELSE 0

C27_CorrectionRetried ==
    [][\A j \in DOMAIN jobs :
         (JobReviseResponse(j, Fails("throws")) /\ RevisionRequests(j) < MAX_RETRIES)
         => /\ jobs'[j].pc = "revise"
            /\ ~(SentBy("job")' /\ lastSent'[1].id = j)]_vars

(***************************************************************************)
(* C28: two segments have the same key in the audio cache exactly when     *)
(* they have the same bytes, so that a lookup for a segment finds only     *)
(* what was stored for these bytes.                                        *)
(***************************************************************************)
C28_KeyIdentifiesBytes ==
    (asked.fn = "key" /\ answer # <<>>)
    => (answer[1] = answer[2] <=> BufBytes(asked.one) = BufBytes(asked.other))

(***************************************************************************)
(* C29: whatever the connections have stored, the Map-based cache holds at *)
(* most MAP_CACHE_LIMIT entries.                                           *)
(***************************************************************************)
C29_CacheWithinCapacity == Len(transcriptionCache) <= MAP_CACHE_LIMIT

(***************************************************************************)
(* C30: a lookup returns the transcription of a key only if the key was    *)
(* last written less than the TTL ago, and reports a key absent whose      *)
(* entry has reached the age of the TTL; a write gives the entry of its    *)
(* key the time of the write, whether the key was there or not.            *)
(***************************************************************************)
C30_LookupWithinTTL ==
    [][/\ \A cacheKey \in 1..2 :
            CacheLookup(cacheKey)
            => IF /\ MapHas(transcriptionCache, cacheKey)
                  /\ clock - MapGet(transcriptionCache, cacheKey).timestamp
                       < TRANSCRIPTION_CACHE_TTL
               THEN answer' = <<Ok(MapGet(transcriptionCache, cacheKey).transcription)>>
               ELSE answer' = <<Fails("null")>>
       /\ \A cacheKey \in 1..2, transcription \in {TxtShort, TxtLong} :
            CacheWrite(cacheKey, transcription)
            => /\ MapHas(transcriptionCache', cacheKey)
               /\ MapGet(transcriptionCache', cacheKey) =
                      [key |-> cacheKey, transcription |-> transcription,
                       timestamp |-> clock]]_vars

\* an entry written again at half its TTL is served when the TTL of the first
\* write has passed
C30_Witness ==
    /\ clock = 2 * (TRANSCRIPTION_CACHE_TTL \div 2)
    /\ asked = [fn |-> "get", key |-> 1]
    /\ answer = <<Ok(TxtLong)>>
    /\ MapHas(transcriptionCache, 1)
    /\ MapGet(transcriptionCache, 1).timestamp = TRANSCRIPTION_CACHE_TTL \div 2

(***************************************************************************)
(* C31: the field names of the template are pairwise distinct (and the     *)
(* template therefore as long as the set of attribute keys that the start  *)
(* message initialised).                                                   *)
(***************************************************************************)
C31_TemplateFieldsDistinct ==
    \A i, k \in DOMAIN template :
        i # k => template[i].field_name # template[k].field_name


\* C32: once a container header has been captured on the connection, every
\* segment cut afterwards and handed to the transcription client (the snapshot
\* of a job, the residual of a stop) begins with the container magic.  (Here
\* the first chunk of the connection is the header chunk, so that every
\* segment is cut after the capture.)
C32_SegmentsCarryHeader ==
    /\ \A j \in DOMAIN jobs :
          jobs[j].pc \in {"queued", "whisper"} => BufferIsWebM(jobs[j].buf)
    /\ \A s \in DOMAIN stops :
          stops[s].pc = "whisper" => BufferIsWebM(stops[s].buf)

\* C33: while every buffer that the gate is asked about is rejected, no job is
\* scheduled and no stop reaches the speech-to-text request; every cutover
\* empties the buffer, sets nchunks to 0 and sends nothing; no error is sent;
\* and every stop is answered with a final response that has no error member.
C33_SilentAudioNeverTranscribed ==
    /\ [][/\ jobs' = <<>>
          /\ \A s \in DOMAIN stops' : stops'[s].pc \notin {"whisper", "revise"}
          /\ \A chunk \in SilentChunks :
                (BinaryFrame(chunk) /\ nchunks + 1 >= MIN_CHUNK_NUM)
                    => (audioBuffer' = <<>> /\ nchunks' = 0 /\ lastSent' = <<>>)
          /\ lastSent' # <<>> => "error" \notin DOMAIN lastSent'[1].msg
          /\ (lastSent' # <<>> /\ lastSent'[1].from = "stop")
                => DOMAIN lastSent'[1].msg = {"corrected_audio", "attributes"}]_vars
    /\ \A s \in 1..MaxStops :
          (Len(stops) >= s) ~> (Len(stops) >= s /\ stops[s].sent = 1)

\* a stop has been answered after silent segments were cut and discarded
C33_Witness ==
    /\ nBinary >= 2 * MIN_CHUNK_NUM
    /\ jobs = <<>>
    /\ SentBy("stop")
    /\ stops[1].sent = 1
    /\ stops[1].arrived = 0
    /\ "error" \notin DOMAIN SentMsg

\* C34: on one connection every stop is answered with a final response, also
\* a stop of a later cycle; no step shortens or rewrites the transcript or
\* removes a key of the attributes, a start or a stop of a later cycle
\* included; and every final response carries the transcript as it is then:
\* so the corrected_audio of a later final response begins with the
\* corrected_audio of every earlier one.
C34_CyclesAccumulate ==
    /\ [][/\ IsPrefix(transcript, transcript')
          /\ \A k \in DOMAIN Attributes :
                /\ k \in DOMAIN Attributes'
                /\ Informative(Attributes[k]) => Informative(Attributes'[k])
          /\ (lastSent' # <<>> /\ lastSent'[1].from = "stop")
                => /\ lastSent'[1].msg.corrected_audio = transcript'
                   /\ lastSent'[1].msg.attributes = Attributes'
          /\ (nStarts' # nStarts \/ Len(stops') # Len(stops))
                => (transcript' = transcript /\ currTranscriptSize' = currTranscriptSize
                      /\ (template # <<>> => Attributes' = Attributes))]_vars
    /\ \A s \in 1..MaxStops :
          (Len(stops) >= s) ~> (Len(stops) >= s /\ stops[s].sent = 1)

\* the stop of a second cycle has been answered with the transcript of both
\* cycles: a segment was cut and stitched before the first stop, and the
\* residual of the second stop was stitched to it over an overlap
C34_Witness ==
    /\ Len(stops) = 2
    /\ stops[1].sent = 1 /\ stops[2].sent = 1
    /\ stops[1].arrived = 1
    /\ jobs[1].pc = "done"
    /\ SentBy("stop") /\ lastSent[1].id = 2
    /\ SentMsg.corrected_audio = transcript
    /\ IsPrefix(TxtLong, transcript)
    /\ Len(transcript) > Len(TxtLong)
    /\ "name" \in DOMAIN SentMsg.attributes

\* C35: a job of the cache-enabled server that ends because its text has fewer
\* than MIN_WORD_COUNT words sends nothing and leaves transcript,
\* currTranscriptSize, the attributes, audioBuffer and nchunks as they were.
C35_AbandonedJobChangesNothing ==
    [][\A j \in DOMAIN jobs :
         (\/ CachedJobRawReady(j)
          \/ \E outcome \in WhisperOutcomes :
                /\ outcome.kind = "ok"
                /\ RevisesWithoutCall(outcome.val)
                /\ WordCount(outcome.val) < MIN_WORD_COUNT
                /\ CachedJobWhisperResponse(j, outcome)
          \/ \E outcome \in ReviseOutcomes :
                /\ outcome.kind # "throws"
                /\ WordCount(ReviseResult(jobs[j].text, outcome)) < MIN_WORD_COUNT
                /\ CachedJobReviseResponse(j, outcome))
         => /\ lastSent' = <<>>
            /\ transcript' = transcript
            /\ currTranscriptSize' = currTranscriptSize
            /\ Attributes' = Attributes
            /\ audioBuffer' = audioBuffer
            /\ nchunks' = nchunks]_vars

\* C36: a job has a request to the correction service in flight only for a
\* raw text of at least MIN_WORD_COUNT words.
C36_CorrectionOnlyAfterWordCount ==
    \A j \in DOMAIN jobs :
        jobs[j].pc = "revise" => WordCount(jobs[j].text) >= MIN_WORD_COUNT

\* C37: the window that a job sends as corrected_audio of its update is no
\* longer than currTranscriptSize before the stitch plus currTranscriptSize
\* after it (here the job stitches and sends in one step: without a template
\* the extraction returns without a request).
C37_WindowWithinGrowth ==
    [][(lastSent' # <<>> /\ lastSent'[1].from = "job"
          /\ "corrected_audio" \in DOMAIN lastSent'[1].msg)
       => Len(lastSent'[1].msg.corrected_audio)
              <= currTranscriptSize + currTranscriptSize']_vars

\* C38: when the first job of a connection has failed (it has sent
\* transcription-failed) and no other job and no stop has run, the transcript
\* is still empty, currTranscriptSize is still 0 and no attribute has a value:
\* they are what they were before the job started.
C38_FailedJobChangesNothing ==
    (Len(jobs) = 1 /\ stops = <<>> /\ SentBy("job")
       /\ HasError(SentMsg, "transcription-failed"))
    => /\ transcript = <<>>
       /\ currTranscriptSize = 0
       /\ \A k \in DOMAIN Attributes : Attributes[k] = <<>>

\* C39: on the caching server, when the final response of a stop has been
\* sent, every segment that was cut before the stop arrived and served from
\* the audio cache has been processed to its end (here the stop is the last
\* frame of the client: every segment was cut before it).
C39_ServedSegmentsBeforeFinal ==
    \A s \in DOMAIN stops :
        stops[s].sent >= 1 => \A h \in DOMAIN served : served[h].pc = "done"

\* C40: between message handlers nchunks is at least 0 and below
\* MIN_CHUNK_NUM; a binary frame that is buffered without reaching
\* MIN_CHUNK_NUM appends exactly its bytes to audioBuffer, adds one to nchunks,
\* schedules no job and sends nothing; a binary frame that cuts a segment (a
\* job is scheduled or the gate discards the buffer) and a stop that takes
\* the residual leave nchunks at 0 and audioBuffer empty.
C40_ChunkCounter ==
    /\ [](nchunks \in 0..(MIN_CHUNK_NUM - 1))
    /\ [][\A chunk \in Chunks :
           (BinaryFrame(chunk)
              /\ BufLen(audioBuffer) + BufLen(chunk) <= MAX_AUDIO_BUFFER_SIZE)
           => IF nchunks + 1 < MIN_CHUNK_NUM
              THEN /\ audioBuffer' = BufConcat(audioBuffer, chunk)
                   /\ BufLen(audioBuffer') = BufLen(audioBuffer) + BufLen(chunk)
                   /\ nchunks' = nchunks + 1
                   /\ jobs' = jobs
                   /\ lastSent' = <<>>
              ELSE /\ nchunks' = 0
                   /\ audioBuffer' = <<>>
                   /\ Len(jobs') \in {Len(jobs), Len(jobs) + 1}]_vars
    /\ [][\A s \in DOMAIN stops :
           (StopResume(s) /\ BufLen(audioBuffer) > 0)
           => (nchunks' = 0 /\ audioBuffer' = <<>>)]_vars

\* a chunk has been buffered after a segment was cut and its job scheduled
C40_Witness ==
    /\ nBinary = MIN_CHUNK_NUM + 1
    /\ nchunks = 1
    /\ Len(jobs) = 1
    /\ audioBuffer = HDR
    /\ lastSent = <<>>

============================================================================
